---- MODULE Spec2Model ----
(***************************************************************************)
(* Connection-resilience layer of the Tesla HVAC client                    *)
(* (internal/tesla/client.go): the CircuitBreaker, Client.retryWithBackoff *)
(* and the Client's connection handling, as a state machine of goroutines  *)
(* (callers) that each run one operation at a time.  A caller's position   *)
(* is a stack of frames; a frame is one retryWithBackoff loop together     *)
(* with the CircuitBreaker.Call it makes and the closure it passes.        *)
(***************************************************************************)
EXTENDS Integers, Sequences, FiniteSets, TLC

\* ---------------------------------------------------------------- bounds
NumCallers == 2
MaxTime == 3
MaxOps == 3
MaxRetryOps == 2
MaxFailuresBound == 3
ResetTimeoutBound == 2
HalfOpenBound == 2
MaxRetriesBound == 2
MaxHandles == 2
ClientMaxFailuresBound == 2
ClientMaxRetriesBound == 1
IdleStep == 80
MaxIdle == 600
MaxAttempt == 3
InitialDelayBound == 4
MaxDelayBound == 9
FactorBound == 4
FactorDen == 2
BLEMaxRetriesBound == 3
BLERetryIntervalBound == 1
ScanRetriesBound == 2
ScanDelayBound == 1

Callers == 1..NumCallers

VARIABLES
    state, failureCount, lastFailTime, successCount, mutex, config,
    retryConfig, vehicle, conn, lastHealthCheck, healthMutex,
    live, nextHandle,
    now, started,
    stack, ctxErr, wakeAt, result, callCount, script, consecFail, atStart,
    lastHealthReturn, bc, bcMutex, bm

cbVars == <<state, failureCount, lastFailTime, successCount>>
clientVars == <<retryConfig, vehicle, conn, lastHealthCheck, healthMutex,
                lastHealthReturn>>
bleVars == <<bc, bcMutex, bm>>
envVars == <<live, nextHandle>>
vars == <<state, failureCount, lastFailTime, successCount, mutex, config,
          retryConfig, vehicle, conn, lastHealthCheck, healthMutex,
          live, nextHandle, now, started,
          stack, ctxErr, wakeAt, result, callCount, script, consecFail,
          atStart, lastHealthReturn, bc, bcMutex, bm>>

\* ---------------------------------------------------------------- errors
\* An error value: chain is what errors.Is can match (the %w unwrap chain),
\* msg is the text of Error() as a list of pieces.
Nil == [chain |-> <<>>, msg |-> <<>>]
Sentinel(name, text) == [chain |-> <<name>>, msg |-> <<text>>]
ErrNotConnected == Sentinel("ErrNotConnected", "not connected to vehicle")
ErrConnectionLost == Sentinel("ErrConnectionLost", "connection to vehicle lost")
ErrRetryExhausted == Sentinel("ErrRetryExhausted", "retry attempts exhausted")
ErrCircuitOpen == Sentinel("ErrCircuitOpen", "circuit breaker is open")
Canceled == Sentinel("context.Canceled", "context canceled")
DeadlineExceeded == Sentinel("context.DeadlineExceeded", "context deadline exceeded")
\* errors.New(text) or fmt.Errorf(text) without %w
NewError(text) == [chain |-> <<text>>, msg |-> <<text>>]
\* fmt.Errorf("<prefix>: %w", e)
Wrap(prefix, e) == [chain |-> e.chain, msg |-> <<prefix, ": ">> \o e.msg]
\* errors.Is(e, target) for a sentinel target
Is(e, target) == \E i \in 1..Len(e.chain) : e.chain[i] = target.chain[1]
\* the error a failing transport call of the vehicle library returns
TransportError == NewError("transport error")
TestError == NewError("test error")

\* ---------------------------------------------------------------- time
ZeroTime == -1
\* time.Since(t) > d; the zero time.Time lies further back than any Duration,
\* so time.Since of it saturates at the largest Duration
SinceExceeds(t, d) == t = ZeroTime \/ now - t > d
Max(a, b) == IF a >= b THEN a ELSE b

\* ---------------------------------------------------------------- frames
NewFrame(op, pc) ==
    [op |-> op, pc |-> pc, attempt |-> 0, lastErr |-> Nil, err |-> Nil,
     h |-> 0]
Busy(t) == stack[t] # <<>>
Top(t) == stack[t][Len(stack[t])]
At(t, pc) == Busy(t) /\ Top(t).pc = pc
SetTop(t, f) == [stack EXCEPT ![t] = [@ EXCEPT ![Len(@)] = f]]

\* ops whose body is a retryWithBackoff loop
RetryOps == {"retryWithBackoff", "GetHVACState", "GetFanSpeed",
             "GetAirflowPattern", "GetAutoMode", "Connect"}
\* the three getters whose closure calls GetHVACState
GetterOps == {"GetFanSpeed", "GetAirflowPattern", "GetAutoMode"}
\* the program points at which a caller holds cb.mutex
CallPcs == {"check", "fn", "io", "nested", "scan", "open", "key", "newVehicle",
            "connect", "session", "update", "unlock",
            "scanLoop", "scanCall", "scanSleep", "scanDone", "panicked"}
InCall(t) == Busy(t) /\ \E i \in 1..Len(stack[t]) : stack[t][i].pc \in CallPcs

\* IsConnected
IsConnected == vehicle # 0 /\ conn # 0
\* what a test notes before it calls an operation
Snapshot ==
    [state |-> state, failureCount |-> failureCount,
     connected |-> IsConnected, nextHandle |-> nextHandle,
     rejecting |-> state = "Open"
                   /\ ~SinceExceeds(lastFailTime, config.ResetTimeout)]

\* ------------------------------------------------------- return of a frame
NoResult == [op |-> "none", err |-> Nil, returned |-> FALSE]
\* the caller's frame after the call it was waiting for returned e
Resume(parent, e) ==
    CASE parent.pc = "nested" ->
            \* client.go:652-655, 701-704, 779-782
            [parent EXCEPT !.pc = "update",
                           !.err = IF e = Nil THEN Nil
                                   ELSE Wrap("failed to get HVAC state", e)]
      [] parent.pc = "health" -> [parent EXCEPT !.pc = "healthRet", !.err = e]
      [] parent.pc = "reconnect" -> [parent EXCEPT !.pc = "reconnectRet", !.err = e]
      [] OTHER -> [parent EXCEPT !.err = e]
\* the top frame of t returns e to its caller
Return(t, e) ==
    LET n == Len(stack[t]) IN
    IF n = 1
    THEN /\ stack' = [stack EXCEPT ![t] = <<>>]
         /\ result' = [result EXCEPT ![t] =
                          [op |-> Top(t).op, err |-> e, returned |-> TRUE]]
    ELSE /\ stack' = [stack EXCEPT ![t] =
                          Append(SubSeq(@, 1, n - 2), Resume(@[n - 1], e))]
         /\ UNCHANGED result

\* ------------------------------------------------------- CircuitBreaker
\* CallLock taking the lock shared (RLock) instead of exclusive
CallLockShared(t) ==
    /\ At(t, "lock")
    /\ mutex' = t
    /\ stack' = SetTop(t, [Top(t) EXCEPT !.pc = "check"])
    /\ UNCHANGED <<cbVars, config, bleVars, clientVars, envVars, now, started,
                   ctxErr, wakeAt, result, callCount, script, consecFail, atStart>>

\* cb.mutex.Lock() at the head of Call: blocks while another Call holds it
CallLock(t) ==
    /\ At(t, "lock")
    /\ mutex = 0
    /\ mutex' = t
    /\ stack' = SetTop(t, [Top(t) EXCEPT !.pc = "check"])
    /\ UNCHANGED <<cbVars, config, bleVars, clientVars, envVars, now, started,
                   ctxErr, wakeAt, result, callCount, script, consecFail, atStart>>

\* CallCheck restarting the reset timer when it rejects a Call
CallCheckRestart(t) ==
    /\ At(t, "check")
    /\ LET elapsed == SinceExceeds(lastFailTime, config.ResetTimeout)
           toHalfOpen == state = "Open" /\ elapsed
           state1 == IF toHalfOpen THEN "HalfOpen" ELSE state
           successCount1 == IF toHalfOpen THEN 0 ELSE successCount
           reject == \/ state = "Open" /\ ~elapsed
                     \/ state1 = "HalfOpen"
                        /\ successCount1 >= config.HalfOpenMaxCalls
       IN /\ state' = state1
          /\ successCount' = successCount1
          /\ lastFailTime' = IF reject THEN now ELSE lastFailTime
          /\ stack' = SetTop(t,
                IF reject
                THEN [Top(t) EXCEPT !.pc = "unlock", !.err = ErrCircuitOpen]
                ELSE [Top(t) EXCEPT !.pc = "fn"])
    /\ UNCHANGED <<failureCount, mutex, config, bleVars, clientVars,
                   envVars, now, started, ctxErr, wakeAt, result, callCount,
                   script, consecFail, atStart>>

\* the state checks of Call before the function is invoked
CallCheck(t) ==
    /\ At(t, "check")
    /\ LET elapsed == SinceExceeds(lastFailTime, config.ResetTimeout)
           toHalfOpen == state = "Open" /\ elapsed
           state1 == IF toHalfOpen THEN "HalfOpen" ELSE state
           successCount1 == IF toHalfOpen THEN 0 ELSE successCount
           reject == \/ state = "Open" /\ ~elapsed
                     \/ state1 = "HalfOpen"
                        /\ successCount1 >= config.HalfOpenMaxCalls
       IN /\ state' = state1
          /\ successCount' = successCount1
          /\ stack' = SetTop(t,
                IF reject
                THEN [Top(t) EXCEPT !.pc = "unlock", !.err = ErrCircuitOpen]
                ELSE [Top(t) EXCEPT !.pc = "fn"])
    /\ UNCHANGED <<failureCount, lastFailTime, mutex, config, bleVars, clientVars,
                   envVars, now, started, ctxErr, wakeAt, result, callCount,
                   script, consecFail, atStart>>

\* CallUpdate opening one failure late and keeping failureCount on success
CallUpdateLate(t) ==
    /\ At(t, "update")
    /\ IF Top(t).err # Nil
       THEN /\ failureCount' = failureCount + 1
            /\ lastFailTime' = now
            /\ state' = IF failureCount + 1 > config.MaxFailures
                        THEN "Open" ELSE state
            /\ UNCHANGED successCount
       ELSE /\ UNCHANGED failureCount
            /\ successCount' = successCount + 1
            /\ state' = IF state = "HalfOpen" THEN "Closed" ELSE state
            /\ UNCHANGED lastFailTime
    /\ stack' = SetTop(t, [Top(t) EXCEPT !.pc = "unlock"])
    /\ UNCHANGED <<mutex, config, bleVars, clientVars, envVars, now, started, ctxErr,
                   wakeAt, result, callCount, script, consecFail, atStart>>

\* CallUpdate keeping the old failure time when the probe of HalfOpen fails
CallUpdateStale(t) ==
    /\ At(t, "update")
    /\ IF Top(t).err # Nil
       THEN /\ failureCount' = failureCount + 1
            /\ lastFailTime' = IF state = "HalfOpen" THEN lastFailTime ELSE now
            /\ state' = IF failureCount + 1 >= config.MaxFailures
                        THEN "Open" ELSE state
            /\ UNCHANGED successCount
       ELSE /\ failureCount' = 0
            /\ successCount' = successCount + 1
            /\ state' = IF state = "HalfOpen" THEN "Closed" ELSE state
            /\ UNCHANGED lastFailTime
    /\ stack' = SetTop(t, [Top(t) EXCEPT !.pc = "unlock"])
    /\ UNCHANGED <<mutex, config, bleVars, clientVars, envVars, now, started, ctxErr,
                   wakeAt, result, callCount, script, consecFail, atStart>>

\* CallUpdate closing a HalfOpen breaker only once successCount has reached
\* HalfOpenMaxCalls
CallUpdateProbing(t) ==
    /\ At(t, "update")
    /\ IF Top(t).err # Nil
       THEN /\ failureCount' = failureCount + 1
            /\ lastFailTime' = now
            /\ state' = IF failureCount + 1 >= config.MaxFailures
                        THEN "Open" ELSE state
            /\ UNCHANGED successCount
       ELSE /\ failureCount' = 0
            /\ successCount' = successCount + 1
            /\ state' = IF /\ state = "HalfOpen"
                           /\ successCount + 1 >= config.HalfOpenMaxCalls
                        THEN "Closed" ELSE state
            /\ UNCHANGED lastFailTime
    /\ stack' = SetTop(t, [Top(t) EXCEPT !.pc = "unlock"])
    /\ UNCHANGED <<mutex, config, bleVars, clientVars, envVars, now, started, ctxErr,
                   wakeAt, result, callCount, script, consecFail, atStart>>

\* the bookkeeping of Call after the function returned Top(t).err
CallUpdate(t) ==
    /\ At(t, "update")
    /\ IF Top(t).err # Nil
       THEN /\ failureCount' = failureCount + 1
            /\ lastFailTime' = now
            /\ state' = IF failureCount + 1 >= config.MaxFailures
                        THEN "Open" ELSE state
            /\ UNCHANGED successCount
       ELSE /\ failureCount' = 0
            /\ successCount' = successCount + 1
            /\ state' = IF state = "HalfOpen" THEN "Closed" ELSE state
            /\ UNCHANGED lastFailTime
    /\ stack' = SetTop(t, [Top(t) EXCEPT !.pc = "unlock"])
    /\ UNCHANGED <<mutex, config, bleVars, clientVars, envVars, now, started, ctxErr,
                   wakeAt, result, callCount, script, consecFail, atStart>>

\* the deferred cb.mutex.Unlock(); Call returns to retryWithBackoff, or to
\* the caller when Call was invoked directly
CallUnlock(t) ==
    /\ At(t, "unlock")
    /\ mutex' = 0
    /\ IF Top(t).op = "Call"
       THEN Return(t, Top(t).err)
       ELSE /\ stack' = SetTop(t, [Top(t) EXCEPT !.pc = "after"])
            /\ UNCHANGED result
    /\ UNCHANGED <<cbVars, config, bleVars, clientVars, envVars, now, started, ctxErr,
                   wakeAt, callCount, script, consecFail, atStart>>

\* GetState
GetState == state

\* ------------------------------------------------------- test functions
\* The function of the repository's tests: it counts its invocations
\* (callCount) and fails its first script[t] invocations, or always.
Always == -1
FnFails(t) == script[t] = Always \/ callCount[t] < script[t]
FnScripted(t) ==
    /\ At(t, "fn")
    /\ Top(t).op \in {"Call", "retryWithBackoff"}
    /\ callCount' = [callCount EXCEPT ![t] = @ + 1]
    /\ consecFail' = IF FnFails(t) THEN consecFail + 1 ELSE 0
    /\ stack' = SetTop(t, [Top(t) EXCEPT !.pc = "update",
                             !.err = IF FnFails(t) THEN TestError ELSE Nil])
    /\ UNCHANGED <<cbVars, mutex, config, bleVars, clientVars, envVars, now, started,
                   ctxErr, wakeAt, result, script, atStart>>

\* a caller invokes cb.Call(fn) directly, as circuit_breaker_test.go does
StartCall(t, fails) ==
    /\ ~Busy(t)
    /\ started < MaxOps
    /\ started' = started + 1
    /\ stack' = [stack EXCEPT ![t] = <<NewFrame("Call", "lock")>>]
    /\ script' = [script EXCEPT ![t] = IF fails THEN Always ELSE 0]
    /\ callCount' = [callCount EXCEPT ![t] = 0]
    /\ result' = [result EXCEPT ![t] = NoResult]
    /\ ctxErr' = [ctxErr EXCEPT ![t] = Nil]
    /\ UNCHANGED <<cbVars, mutex, config, bleVars, clientVars, envVars, now, wakeAt,
                   consecFail, atStart>>

\* The clock advances.  The steps of a caller between two waits take no
\* time; time passes while every caller is idle, waits for a lock or a timer,
\* or is inside the wrapped function or a transport call.
WaitPcs == {"lock", "fn", "io", "nested", "sleep", "scan", "open", "connect",
            "session", "health", "reconnect", "hlock", "scanCall", "scanSleep"}
Tick ==
    /\ now < MaxTime
    /\ \A t \in Callers : Busy(t) => Top(t).pc \in WaitPcs
    /\ now' = now + 1
    /\ UNCHANGED <<cbVars, mutex, config, bleVars, clientVars, envVars, started,
                   stack, ctxErr, wakeAt, result, callCount, script,
                   consecFail, atStart>>

\* ------------------------------------------------------- retryWithBackoff
\* base^n for math.Pow with whole numbers
RECURSIVE Pow(_, _)
Pow(base, n) == IF n = 0 THEN 1 ELSE base * Pow(base, n - 1)

\* math.Mod(x, 1.0) of the float64 of a whole number of nanoseconds
FracPart(nanos) == nanos % 1
\* calculateDelay at the clock reading nanos (time.Now().UnixNano()).
\* BackoffFactor is a float64: the model holds it as a number of FactorDen-ths
\* (BackoffFactor = 2 * FactorDen is the factor 2.0), so that factors below 1
\* exist; the delay before the conversion is num / den.  The jitter term is
\* delay * 0.25 * (0.5 - FracPart), i.e. delay * (1 - 2 * FracPart) / 8; the
\* conversion to time.Duration truncates.
calculateDelayAt(attempt, nanos) ==
    LET num == retryConfig.InitialDelay * Pow(retryConfig.BackoffFactor, attempt)
        den == Pow(FactorDen, attempt)
        over == num > retryConfig.MaxDelay * den
        cnum == IF over THEN retryConfig.MaxDelay ELSE num
        cden == IF over THEN 1 ELSE den
    IN IF retryConfig.Jitter
       THEN (cnum * (9 - 2 * FracPart(nanos))) \div (cden * 8)
       ELSE cnum \div cden
calculateDelay(attempt) == calculateDelayAt(attempt, now)

\* the operation string each caller of retryWithBackoff passes
Label(op) ==
    CASE op = "Connect" -> "connect"
      [] op = "ConnectWithConfig" -> "connect"
      [] op = "GetHVACState" -> "get_hvac_state"
      [] op = "GetFanSpeed" -> "get_fan_speed"
      [] op = "GetAirflowPattern" -> "get_airflow_pattern"
      [] op = "GetAutoMode" -> "get_auto_mode"
      [] op = "SetTemperature" -> "set_temperature"
      [] op = "SetClimateOn" -> "set_climate_on"
      [] OTHER -> "test_op"

\* fmt.Errorf("%w: %s failed after %d attempts: %v", ErrRetryExhausted, ...)
Exhausted(label, attempts, last) ==
    [chain |-> ErrRetryExhausted.chain,
     msg |-> ErrRetryExhausted.msg
             \o <<": ", label, " failed after ", ToString(attempts), " attempts: ">>
             \o last.msg]

\* RetryCtxCheck looking at ctx.Done() only from the second attempt on
RetryCtxCheckLate(t) ==
    /\ At(t, "ctx")
    /\ IF Top(t).attempt > retryConfig.MaxRetries
       THEN Return(t, Exhausted(Label(Top(t).op), retryConfig.MaxRetries + 1,
                                Top(t).lastErr))
       ELSE IF ctxErr[t] # Nil /\ Top(t).attempt > 0
       THEN Return(t, ctxErr[t])
       ELSE /\ stack' = SetTop(t, [Top(t) EXCEPT !.pc = "lock"])
            /\ UNCHANGED result
    /\ UNCHANGED <<cbVars, mutex, config, bleVars, clientVars, envVars, now, started,
                   ctxErr, wakeAt, callCount, script, consecFail, atStart>>

\* head of the loop: the loop condition and the non-blocking ctx.Done() check
RetryCtxCheck(t) ==
    /\ At(t, "ctx")
    /\ IF Top(t).attempt > retryConfig.MaxRetries
       THEN Return(t, Exhausted(Label(Top(t).op), retryConfig.MaxRetries + 1,
                                Top(t).lastErr))
       ELSE IF ctxErr[t] # Nil
       THEN Return(t, ctxErr[t])
       ELSE /\ stack' = SetTop(t, [Top(t) EXCEPT !.pc = "lock"])
            /\ UNCHANGED result
    /\ UNCHANGED <<cbVars, mutex, config, bleVars, clientVars, envVars, now, started,
                   ctxErr, wakeAt, callCount, script, consecFail, atStart>>

\* RetryAfter leaving the loop one attempt early
RetryAfterShort(t) ==
    /\ At(t, "after")
    /\ LET f == Top(t) IN
       IF f.err = Nil
       THEN Return(t, Nil) /\ UNCHANGED wakeAt
       ELSE IF f.attempt + 1 >= retryConfig.MaxRetries
       THEN /\ Return(t, Exhausted(Label(f.op), retryConfig.MaxRetries + 1,
                                   f.err))
            /\ UNCHANGED wakeAt
       ELSE /\ wakeAt' = [wakeAt EXCEPT ![t] = now + calculateDelay(f.attempt)]
            /\ stack' = SetTop(t, [f EXCEPT !.pc = "sleep", !.lastErr = f.err])
            /\ UNCHANGED result
    /\ UNCHANGED <<cbVars, mutex, config, bleVars, clientVars, envVars, now, started,
                   ctxErr, callCount, script, consecFail, atStart>>

\* after Call returned: success, the last attempt, or the backoff delay
RetryAfter(t) ==
    /\ At(t, "after")
    /\ LET f == Top(t) IN
       IF f.err = Nil
       THEN Return(t, Nil) /\ UNCHANGED wakeAt
       ELSE IF f.attempt = retryConfig.MaxRetries
       THEN /\ Return(t, Exhausted(Label(f.op), retryConfig.MaxRetries + 1,
                                   f.err))
            /\ UNCHANGED wakeAt
       ELSE /\ wakeAt' = [wakeAt EXCEPT ![t] = now + calculateDelay(f.attempt)]
            /\ stack' = SetTop(t, [f EXCEPT !.pc = "sleep", !.lastErr = f.err])
            /\ UNCHANGED result
    /\ UNCHANGED <<cbVars, mutex, config, bleVars, clientVars, envVars, now, started,
                   ctxErr, callCount, script, consecFail, atStart>>

\* RetryWake not counting an attempt the breaker rejected
RetryWakeFree(t) ==
    /\ At(t, "sleep")
    /\ now' = Max(now, wakeAt[t])
    /\ wakeAt' = [wakeAt EXCEPT ![t] = 0]
    /\ stack' = SetTop(t, [Top(t) EXCEPT
                             !.pc = "ctx",
                             !.attempt = IF Top(t).lastErr = ErrCircuitOpen
                                         THEN @ ELSE @ + 1,
                             !.err = Nil, !.h = 0])
    /\ UNCHANGED <<cbVars, mutex, config, bleVars, clientVars, envVars, started,
                   ctxErr, result, callCount, script, consecFail, atStart>>

\* select: time.After(delay) fires; the caller resumes no earlier than wakeAt
RetryWake(t) ==
    /\ At(t, "sleep")
    /\ now' = Max(now, wakeAt[t])
    /\ wakeAt' = [wakeAt EXCEPT ![t] = 0]
    /\ stack' = SetTop(t, [Top(t) EXCEPT !.pc = "ctx", !.attempt = @ + 1,
                                         !.err = Nil, !.h = 0])
    /\ UNCHANGED <<cbVars, mutex, config, bleVars, clientVars, envVars, started,
                   ctxErr, result, callCount, script, consecFail, atStart>>

\* RetrySleepCancelled leaving the loop as if the attempts were used up
RetrySleepCancelledExhausted(t) ==
    /\ At(t, "sleep")
    /\ ctxErr[t] # Nil
    /\ Return(t, Exhausted(Label(Top(t).op), retryConfig.MaxRetries + 1,
                           Top(t).lastErr))
    /\ UNCHANGED <<cbVars, mutex, config, bleVars, clientVars, envVars, now, started,
                   ctxErr, wakeAt, callCount, script, consecFail, atStart>>

\* select: ctx.Done() fires during the wait
RetrySleepCancelled(t) ==
    /\ At(t, "sleep")
    /\ ctxErr[t] # Nil
    /\ Return(t, ctxErr[t])
    /\ UNCHANGED <<cbVars, mutex, config, bleVars, clientVars, envVars, now, started,
                   ctxErr, wakeAt, callCount, script, consecFail, atStart>>

\* the context of the running operation is cancelled, or its deadline passes
CtxDone(t, e) ==
    /\ Busy(t)
    /\ ctxErr[t] = Nil
    /\ ctxErr' = [ctxErr EXCEPT ![t] = e]
    /\ UNCHANGED <<cbVars, mutex, config, bleVars, clientVars, envVars, now, started,
                   stack, wakeAt, result, callCount, script, consecFail,
                   atStart>>

\* a caller invokes c.retryWithBackoff(ctx, label, fn) with a function that
\* fails its first k invocations (or always), as the retry tests do
StartRetry(t, k, c) ==
    /\ ~Busy(t)
    /\ started < MaxRetryOps
    /\ started' = started + 1
    /\ stack' = [stack EXCEPT ![t] = <<NewFrame("retryWithBackoff", "ctx")>>]
    /\ script' = [script EXCEPT ![t] = k]
    /\ callCount' = [callCount EXCEPT ![t] = 0]
    /\ result' = [result EXCEPT ![t] = NoResult]
    /\ ctxErr' = [ctxErr EXCEPT ![t] = c]
    /\ atStart' = [atStart EXCEPT ![t] = Snapshot]
    /\ UNCHANGED <<cbVars, mutex, config, bleVars, clientVars, envVars, now, wakeAt,
                   consecFail>>

\* ------------------------------------------------------- Client
\* 5*time.Second of checkConnectionHealth, in clock ticks of 2.5 s
HealthInterval == 2

\* a caller begins the Client operation op, whose first frames are frames
Begin(t, frames, c) ==
    /\ ~Busy(t)
    /\ started < MaxOps
    /\ started' = started + 1
    /\ stack' = [stack EXCEPT ![t] = frames]
    /\ result' = [result EXCEPT ![t] = NoResult]
    /\ ctxErr' = [ctxErr EXCEPT ![t] = c]
    /\ atStart' = [atStart EXCEPT ![t] = Snapshot]

\* a caller calls an operation that returns e without waiting for anything
Immediate(t, op, e) ==
    /\ ~Busy(t)
    /\ started < MaxOps
    /\ started' = started + 1
    /\ result' = [result EXCEPT ![t] = [op |-> op, err |-> e, returned |-> TRUE]]
    /\ ctxErr' = [ctxErr EXCEPT ![t] = Nil]
    /\ atStart' = [atStart EXCEPT ![t] = Snapshot]
    /\ UNCHANGED stack

\* callCount counts the invocations of the closure of the operation the
\* caller was asked to run (not those of the operations that closure calls)
Invoked(t) ==
    [callCount EXCEPT ![t] = IF Len(stack[t]) = 1 THEN @ + 1 ELSE @]

\* GetHVACState, GetFanSpeed, GetAirflowPattern, GetAutoMode, Connect: a
\* context with a timeout, then retryWithBackoff
StartRetryOp(t, op) ==
    /\ op \in RetryOps \ {"retryWithBackoff"}
    /\ Begin(t, <<NewFrame(op, "ctx")>>, Nil)
    /\ callCount' = [callCount EXCEPT ![t] = 0]
    /\ UNCHANGED <<cbVars, mutex, config, bleVars, clientVars, envVars, now, wakeAt,
                   script, consecFail>>

\* the closure of GetHVACState: not connected, or the climate state query
FnHVAC(t) ==
    /\ At(t, "fn")
    /\ Top(t).op = "GetHVACState"
    /\ stack' = SetTop(t,
          IF vehicle = 0
          THEN [Top(t) EXCEPT !.pc = "update", !.err = ErrNotConnected]
          ELSE [Top(t) EXCEPT !.pc = "io"])
    /\ callCount' = Invoked(t)
    /\ UNCHANGED <<cbVars, mutex, config, bleVars, clientVars, envVars, now, started,
                   ctxErr, wakeAt, result, script, consecFail,
                   atStart>>

\* c.vehicle.GetState returns inside the closure of GetHVACState
HVACOutcomes == {"ok", "error", "noClimateState"}
HVACReturn(t, outcome) ==
    /\ At(t, "io")
    /\ Top(t).op = "GetHVACState"
    /\ stack' = SetTop(t, [Top(t) EXCEPT !.pc = "update", !.err =
          CASE outcome = "ok" -> Nil
            [] outcome = "error" -> Wrap("failed to get climate state",
                                        TransportError)
            [] OTHER -> NewError("no climate state data received")])
    /\ UNCHANGED <<cbVars, mutex, config, bleVars, clientVars, envVars, now, started,
                   ctxErr, wakeAt, result, callCount, script, consecFail,
                   atStart>>

\* ---- the retried commands (SetTemperature, SetClimateOn, SetClimateOff,
\* SetSeatHeater, ...): a context with a timeout, then retryWithBackoff of a
\* closure that fails when not connected and else makes one transport call
CommandOps == {"SetTemperature", "SetClimateOn"}
StartCommand(t, op) ==
    /\ op \in CommandOps
    /\ Begin(t, <<NewFrame(op, "ctx")>>, Nil)
    /\ callCount' = [callCount EXCEPT ![t] = 0]
    /\ UNCHANGED <<cbVars, mutex, config, bleVars, clientVars, envVars, now, wakeAt,
                   script, consecFail>>
FnCommand(t) ==
    /\ At(t, "fn")
    /\ Top(t).op \in CommandOps
    /\ stack' = SetTop(t,
          IF vehicle = 0
          THEN [Top(t) EXCEPT !.pc = "update", !.err = ErrNotConnected]
          ELSE [Top(t) EXCEPT !.pc = "io"])
    /\ callCount' = Invoked(t)
    /\ UNCHANGED <<cbVars, mutex, config, bleVars, clientVars, envVars, now, started,
                   ctxErr, wakeAt, result, script, consecFail, atStart>>
\* c.vehicle.ChangeClimateTemp / ClimateOn returns
CommandReturn(t, ok) ==
    /\ At(t, "io")
    /\ Top(t).op \in CommandOps
    /\ stack' = SetTop(t, [Top(t) EXCEPT !.pc = "update", !.err =
          IF ok THEN Nil ELSE TransportError])
    /\ UNCHANGED <<cbVars, mutex, config, bleVars, clientVars, envVars, now, started,
                   ctxErr, wakeAt, result, callCount, script, consecFail,
                   atStart>>

\* the closure of GetFanSpeed, GetAirflowPattern and GetAutoMode calls
\* c.GetHVACState, which starts its own retryWithBackoff
FnGetter(t) ==
    /\ At(t, "fn")
    /\ Top(t).op \in GetterOps
    /\ stack' = [stack EXCEPT ![t] =
                    Append([@ EXCEPT ![Len(@)] = [Top(t) EXCEPT !.pc = "nested"]],
                           NewFrame("GetHVACState", "ctx"))]
    /\ callCount' = Invoked(t)
    /\ UNCHANGED <<cbVars, mutex, config, bleVars, clientVars, envVars, now, started,
                   ctxErr, wakeAt, result, script, consecFail,
                   atStart>>

\* ---- connectInternal, the closure of Connect
FnConnect(t) ==
    /\ At(t, "fn")
    /\ Top(t).op = "Connect"
    /\ stack' = SetTop(t, [Top(t) EXCEPT !.pc = "scan"])
    /\ callCount' = Invoked(t)
    /\ UNCHANGED <<cbVars, mutex, config, bleVars, clientVars, envVars, now, started,
                   ctxErr, wakeAt, result, script, consecFail,
                   atStart>>

\* ble.ScanVehicleBeacon returns
Scan(t, ok) ==
    /\ At(t, "scan")
    /\ stack' = SetTop(t,
          IF ok THEN [Top(t) EXCEPT !.pc = "open"]
          ELSE [Top(t) EXCEPT !.pc = "update", !.err =
                  Wrap("failed to scan for vehicle", TransportError)])
    /\ UNCHANGED <<cbVars, mutex, config, bleVars, clientVars, envVars, now, started,
                   ctxErr, wakeAt, result, callCount, script, consecFail,
                   atStart>>

\* ble.NewConnectionFromScanResult returns: on success a new transport
\* handle is open and c.conn is overwritten with it
Open(t, ok) ==
    /\ At(t, "open")
    /\ IF ok
       THEN /\ nextHandle <= MaxHandles
            /\ live' = live \cup {nextHandle}
            /\ nextHandle' = nextHandle + 1
            /\ conn' = nextHandle
            /\ stack' = SetTop(t, [Top(t) EXCEPT !.pc = "newVehicle",
                                                 !.h = nextHandle])
       ELSE /\ stack' = SetTop(t, [Top(t) EXCEPT !.pc = "update", !.err =
                          Wrap("failed to create BLE connection", TransportError)])
            /\ UNCHANGED <<live, nextHandle, conn>>
    /\ UNCHANGED <<cbVars, mutex, config, bleVars, retryConfig, vehicle,
                   lastHealthCheck, lastHealthReturn, healthMutex, now, started, ctxErr, wakeAt,
                   result, callCount, script, consecFail, atStart>>

\* protocol.LoadPrivateKey and vehicle.NewVehicle: on success c.vehicle is
\* overwritten with a vehicle on the handle just opened
NewVehicleOutcomes == {"ok", "keyError", "vehicleError"}
NewVehicle(t, outcome) ==
    /\ At(t, "newVehicle")
    /\ IF outcome = "ok"
       THEN /\ vehicle' = Top(t).h
            /\ stack' = SetTop(t, [Top(t) EXCEPT !.pc = "connect"])
       ELSE /\ stack' = SetTop(t, [Top(t) EXCEPT !.pc = "update", !.err =
                  IF outcome = "keyError"
                  THEN Wrap("failed to load private key",
                            NewError("invalid private key"))
                  ELSE Wrap("failed to create vehicle instance",
                            NewError("invalid vehicle"))])
            /\ UNCHANGED vehicle
    /\ UNCHANGED <<cbVars, mutex, config, bleVars, retryConfig, conn, lastHealthCheck, lastHealthReturn,
                   healthMutex, envVars, now, started, ctxErr, wakeAt, result,
                   callCount, script, consecFail, atStart>>

\* car.Connect returns
CarConnect(t, ok) ==
    /\ At(t, "connect")
    /\ stack' = SetTop(t,
          IF ok THEN [Top(t) EXCEPT !.pc = "session"]
          ELSE [Top(t) EXCEPT !.pc = "update", !.err =
                  Wrap("failed to connect to vehicle", TransportError)])
    /\ UNCHANGED <<cbVars, mutex, config, bleVars, clientVars, envVars, now, started,
                   ctxErr, wakeAt, result, callCount, script, consecFail,
                   atStart>>

\* car.StartSession returns
StartSession(t, ok) ==
    /\ At(t, "session")
    /\ stack' = SetTop(t, [Top(t) EXCEPT !.pc = "update", !.err =
          IF ok THEN Nil
          ELSE Wrap("failed to start session", TransportError)])
    /\ UNCHANGED <<cbVars, mutex, config, bleVars, clientVars, envVars, now, started,
                   ctxErr, wakeAt, result, callCount, script, consecFail,
                   atStart>>

\* ---- ConnectWithConfig: the Tesla section of the Config it is given
TeslaConfigs ==
    [ScanRetries : 0..ScanRetriesBound, ScanDelay : 1..ScanDelayBound]
\* ConnectWithConfig(ctx, config): a context with config.Tesla.ConnectionTimeout,
\* then retryWithBackoff around connectInternalWithConfig; the frame carries
\* the Config and the locals of the scan loop (attempt, scan, err) together
\* with the number of ble.ScanVehicleBeacon calls it has made
StartConnectWithConfig(t, tesla) ==
    /\ tesla \in TeslaConfigs
    /\ Begin(t, <<[op |-> "ConnectWithConfig", pc |-> "ctx", attempt |-> 0,
                   lastErr |-> Nil, err |-> Nil, h |-> 0, tesla |-> tesla,
                   scanAttempt |-> 0, scan |-> FALSE, scanErr |-> Nil,
                   scans |-> 0]>>, Nil)
    /\ callCount' = [callCount EXCEPT ![t] = 0]
    /\ UNCHANGED <<cbVars, mutex, config, bleVars, clientVars, envVars, now, wakeAt,
                   script, consecFail>>

\* the closure of ConnectWithConfig enters connectInternalWithConfig:
\* var scan, var err, attempt := 0
FnConnectWithConfig(t) ==
    /\ At(t, "fn")
    /\ Top(t).op = "ConnectWithConfig"
    /\ stack' = SetTop(t, [Top(t) EXCEPT !.pc = "scanLoop", !.scanAttempt = 0,
                                         !.scan = FALSE, !.scanErr = Nil,
                                         !.scans = 0])
    /\ callCount' = Invoked(t)
    /\ UNCHANGED <<cbVars, mutex, config, bleVars, clientVars, envVars, now, started,
                   ctxErr, wakeAt, result, script, consecFail,
                   atStart>>

\* the loop condition attempt < config.Tesla.ScanRetries
ScanLoop(t) ==
    /\ At(t, "scanLoop")
    /\ stack' = SetTop(t, [Top(t) EXCEPT !.pc =
          IF Top(t).scanAttempt < Top(t).tesla.ScanRetries
          THEN "scanCall" ELSE "scanDone"])
    /\ UNCHANGED <<cbVars, mutex, config, bleVars, clientVars, envVars, now, started,
                   ctxErr, wakeAt, result, callCount, script, consecFail,
                   atStart>>

\* ble.ScanVehicleBeacon(scanCtx, VIN) returns; with a context that is done
\* it returns the context's error.  Success breaks out of the loop; after a
\* failure that is not the last attempt the goroutine enters
\* time.Sleep(config.Tesla.ScanDelay)
ScanCall(t, ok) ==
    /\ At(t, "scanCall")
    /\ (ctxErr[t] # Nil) => ~ok
    /\ LET f == Top(t)
           e == IF ctxErr[t] # Nil THEN ctxErr[t] ELSE TransportError
       IN  IF ok
           THEN /\ stack' = SetTop(t, [f EXCEPT !.pc = "scanDone",
                                  !.scan = TRUE, !.scanErr = Nil,
                                  !.scans = @ + 1])
                /\ UNCHANGED wakeAt
           ELSE IF f.scanAttempt < f.tesla.ScanRetries - 1
           THEN /\ stack' = SetTop(t, [f EXCEPT !.pc = "scanSleep",
                                  !.scanErr = e, !.scans = @ + 1])
                /\ wakeAt' = [wakeAt EXCEPT ![t] = now + f.tesla.ScanDelay]
           ELSE /\ stack' = SetTop(t, [f EXCEPT !.pc = "scanLoop",
                                  !.scanAttempt = @ + 1,
                                  !.scanErr = e, !.scans = @ + 1])
                /\ UNCHANGED wakeAt
    /\ UNCHANGED <<cbVars, mutex, config, bleVars, clientVars, envVars, now, started,
                   ctxErr, result, callCount, script, consecFail,
                   atStart>>

\* time.Sleep(config.Tesla.ScanDelay) returns once the delay has passed,
\* whatever happened to the context; then attempt++
ScanWake(t) ==
    /\ At(t, "scanSleep")
    /\ wakeAt[t] <= now
    /\ stack' = SetTop(t, [Top(t) EXCEPT !.pc = "scanLoop",
                                         !.scanAttempt = @ + 1])
    /\ UNCHANGED <<cbVars, mutex, config, bleVars, clientVars, envVars, now, started,
                   ctxErr, wakeAt, result, callCount, script, consecFail,
                   atStart>>

\* the runtime error of reading a field through a nil pointer
NilDereference == NewError("invalid memory address or nil pointer dereference")
\* after the loop: err != nil returns the wrapped scan error; otherwise
\* scan.LocalName is read for the log line, which panics when no scan was
\* made (scan is still nil), and ble.NewConnectionFromScanResult follows
ScanDone(t) ==
    /\ At(t, "scanDone")
    /\ LET f == Top(t) IN
       stack' = SetTop(t,
          IF f.scanErr # Nil
          THEN [f EXCEPT !.pc = "update", !.err =
                  Wrap("failed to scan for vehicle after "
                       \o ToString(f.tesla.ScanRetries) \o " attempts",
                       f.scanErr)]
          ELSE IF f.scan THEN [f EXCEPT !.pc = "open"]
          ELSE [f EXCEPT !.pc = "panicked", !.err = NilDereference])
    /\ UNCHANGED <<cbVars, mutex, config, bleVars, clientVars, envVars, now, started,
                   ctxErr, wakeAt, result, callCount, script, consecFail,
                   atStart>>

\* ---- NewClientWithConfigManager: the callback the ConfigManager runs, in
\* its own goroutine, for every validated configuration it loads
\* ConfigManager.Reload has loaded and validated the configuration new and
\* calls the Client's callback with it
StartReload(t, new) ==
    /\ Begin(t, <<[op |-> "Reload", pc |-> "setRetry", attempt |-> 0,
                   lastErr |-> Nil, err |-> Nil, h |-> 0, new |-> new]>>, Nil)
    /\ UNCHANGED <<cbVars, mutex, config, bleVars, clientVars, envVars, now,
                   wakeAt, callCount, script, consecFail>>
\* client.retryConfig = newConfig.Retry
ReloadSetRetry(t) ==
    /\ At(t, "setRetry")
    /\ retryConfig' = Top(t).new.Retry
    /\ stack' = SetTop(t, [Top(t) EXCEPT !.pc = "setBreaker"])
    /\ UNCHANGED <<cbVars, mutex, config, bleVars, vehicle, conn,
                   lastHealthCheck, healthMutex, lastHealthReturn, envVars,
                   now, started, ctxErr, wakeAt, result, callCount, script,
                   consecFail, atStart>>
\* a Call that is running when the Client's breaker is replaced goes on
\* with the CircuitBreaker it was invoked on: its frame keeps that object
Detached(t) == Busy(t) /\ "old" \in DOMAIN Top(t)
Detach(f) ==
    f @@ [old |-> [state |-> state, failureCount |-> failureCount,
                   lastFailTime |-> lastFailTime,
                   successCount |-> successCount, config |-> config]]
Undetach(f) == [x \in DOMAIN f \ {"old"} |-> f[x]]
\* ReloadSetBreaker handing the new configuration to the breaker in place
ReloadSetBreakerInPlace(t) ==
    /\ At(t, "setBreaker")
    /\ config' = Top(t).new.CircuitBreaker
    /\ stack' = [stack EXCEPT ![t] = <<>>]
    /\ result' = [result EXCEPT ![t] =
                     [op |-> "Reload", err |-> Nil, returned |-> TRUE]]
    /\ UNCHANGED <<cbVars, mutex, bleVars, clientVars, envVars, now, started,
                   ctxErr, wakeAt, callCount, script, consecFail, atStart>>
\* client.circuitBreaker = NewCircuitBreaker(newConfig.CircuitBreaker), and
\* the callback returns: a new breaker, Closed, every other field zero
ReloadSetBreaker(t) ==
    /\ At(t, "setBreaker")
    /\ config' = Top(t).new.CircuitBreaker
    /\ state' = "Closed"
    /\ failureCount' = 0
    /\ successCount' = 0
    /\ lastFailTime' = ZeroTime
    /\ mutex' = 0
    /\ stack' = [u \in Callers |->
                   IF u = t THEN <<>>
                   ELSE IF Busy(u) /\ Top(u).pc \in CallPcs
                   THEN SubSeq(stack[u], 1, Len(stack[u]) - 1)
                        \o <<Detach(Top(u))>>
                   ELSE stack[u]]
    /\ result' = [result EXCEPT ![t] =
                     [op |-> "Reload", err |-> Nil, returned |-> TRUE]]
    /\ UNCHANGED <<bleVars, clientVars, envVars, now, started, ctxErr,
                   wakeAt, callCount, script, consecFail, atStart>>
\* the steps of Call on the Client's current breaker
CurrentCallCheck(t) == ~Detached(t) /\ CallCheck(t)
CurrentCallUpdate(t) == ~Detached(t) /\ CallUpdate(t)
CurrentCallUnlock(t) == ~Detached(t) /\ CallUnlock(t)
\* the state checks of a Call on a breaker that has been replaced
DetachedCallCheck(t) ==
    /\ At(t, "check")
    /\ Detached(t)
    /\ LET b == Top(t).old
           elapsed == SinceExceeds(b.lastFailTime, b.config.ResetTimeout)
           toHalfOpen == b.state = "Open" /\ elapsed
           state1 == IF toHalfOpen THEN "HalfOpen" ELSE b.state
           successCount1 == IF toHalfOpen THEN 0 ELSE b.successCount
           reject == \/ b.state = "Open" /\ ~elapsed
                     \/ state1 = "HalfOpen"
                        /\ successCount1 >= b.config.HalfOpenMaxCalls
           b1 == [b EXCEPT !.state = state1, !.successCount = successCount1]
       IN stack' = SetTop(t,
             IF reject
             THEN [Top(t) EXCEPT !.pc = "unlock", !.err = ErrCircuitOpen,
                                 !.old = b1]
             ELSE [Top(t) EXCEPT !.pc = "fn", !.old = b1])
    /\ UNCHANGED <<cbVars, mutex, config, bleVars, clientVars, envVars, now,
                   started, ctxErr, wakeAt, result, callCount, script,
                   consecFail, atStart>>
\* the bookkeeping of a Call on a breaker that has been replaced
DetachedCallUpdate(t) ==
    /\ At(t, "update")
    /\ Detached(t)
    /\ LET b == Top(t).old
           b1 == IF Top(t).err # Nil
                 THEN [b EXCEPT !.failureCount = @ + 1, !.lastFailTime = now,
                          !.state = IF b.failureCount + 1 >= b.config.MaxFailures
                                    THEN "Open" ELSE @]
                 ELSE [b EXCEPT !.failureCount = 0, !.successCount = @ + 1,
                          !.state = IF @ = "HalfOpen" THEN "Closed" ELSE @]
       IN stack' = SetTop(t, [Top(t) EXCEPT !.pc = "unlock", !.old = b1])
    /\ UNCHANGED <<cbVars, mutex, config, bleVars, clientVars, envVars, now,
                   started, ctxErr, wakeAt, result, callCount, script,
                   consecFail, atStart>>
\* the deferred Unlock of the replaced breaker's mutex; nothing refers to
\* that breaker any more
DetachedCallUnlock(t) ==
    /\ At(t, "unlock")
    /\ Detached(t)
    /\ stack' = SetTop(t, [Undetach(Top(t)) EXCEPT !.pc = "after"])
    /\ UNCHANGED <<cbVars, mutex, config, bleVars, clientVars, envVars, now,
                   started, ctxErr, wakeAt, result, callCount, script,
                   consecFail, atStart>>

\* ---- Disconnect: c.vehicle.Disconnect() closes the connector the vehicle
\* was built on, c.conn.Close() closes c.conn; neither field is cleared.
Closed(handles) == handles \ ({vehicle} \cup {conn})
Disconnect(t) ==
    /\ Immediate(t, "Disconnect", Nil)
    /\ live' = Closed(live)
    /\ UNCHANGED <<cbVars, mutex, config, bleVars, clientVars, nextHandle, now,
                   wakeAt, callCount, script, consecFail>>

\* ---- SetAutoMode: no retry, no breaker
SetAutoModeNotConnected(t) ==
    /\ vehicle = 0
    /\ Immediate(t, "SetAutoMode", NewError("not connected to vehicle"))
    /\ UNCHANGED <<cbVars, mutex, config, bleVars, clientVars, envVars, now, wakeAt,
                   callCount, script, consecFail>>
StartSetAutoMode(t) ==
    /\ vehicle # 0
    /\ Begin(t, <<NewFrame("SetAutoMode", "io")>>, Nil)
    /\ UNCHANGED <<cbVars, mutex, config, bleVars, clientVars, envVars, now, wakeAt,
                   callCount, script, consecFail>>
\* c.vehicle.ClimateOn / ClimateOff returns
SetAutoModeReturn(t, ok) ==
    /\ At(t, "io")
    /\ Top(t).op = "SetAutoMode"
    /\ Return(t, IF ok THEN Nil ELSE TransportError)
    /\ UNCHANGED <<cbVars, mutex, config, bleVars, clientVars, envVars, now, started,
                   ctxErr, wakeAt, callCount, script, consecFail, atStart>>

\* ---- checkConnectionHealth
StartHealthCheck(t) ==
    /\ Begin(t, <<NewFrame("checkConnectionHealth", "hlock")>>, Nil)
    /\ UNCHANGED <<cbVars, mutex, config, bleVars, clientVars, envVars, now, wakeAt,
                   callCount, script, consecFail>>
\* c.healthMutex.Lock()
HealthLock(t) ==
    /\ At(t, "hlock")
    /\ healthMutex = 0
    /\ healthMutex' = t
    /\ stack' = SetTop(t, [Top(t) EXCEPT !.pc = "hcheck"])
    /\ UNCHANGED <<cbVars, mutex, config, bleVars, retryConfig, vehicle, conn,
                   lastHealthCheck, lastHealthReturn, envVars, now, started, ctxErr, wakeAt,
                   result, callCount, script, consecFail, atStart>>
\* time.Since(c.lastHealthCheck) < 5*time.Second
CheckedRecently ==
    lastHealthCheck # ZeroTime /\ now - lastHealthCheck < HealthInterval
\* HealthCheck without the rate limit: every call probes
HealthCheckNoLimit(t) ==
    /\ At(t, "hcheck")
    /\ IF vehicle = 0 \/ conn = 0
       THEN /\ healthMutex' = 0
            /\ lastHealthReturn' = now
            /\ Return(t, ErrNotConnected)
       ELSE /\ stack' = SetTop(t, [Top(t) EXCEPT !.pc = "io"])
            /\ UNCHANGED <<healthMutex, result, lastHealthReturn>>
    /\ UNCHANGED <<cbVars, mutex, config, bleVars, retryConfig, vehicle, conn,
                   lastHealthCheck, envVars, now, started, ctxErr, wakeAt,
                   callCount, script, consecFail, atStart>>
\* the rate limit and the nil checks; the deferred Unlock on the two early
\* returns.  lastHealthReturn notes when a call of checkConnectionHealth
\* last returned, whatever it returned.
HealthCheck(t) ==
    /\ At(t, "hcheck")
    /\ IF CheckedRecently
       THEN /\ healthMutex' = 0
            /\ lastHealthReturn' = now
            /\ Return(t, Nil)
       ELSE IF vehicle = 0 \/ conn = 0
       THEN /\ healthMutex' = 0
            /\ lastHealthReturn' = now
            /\ Return(t, ErrNotConnected)
       ELSE /\ stack' = SetTop(t, [Top(t) EXCEPT !.pc = "io"])
            /\ UNCHANGED <<healthMutex, result, lastHealthReturn>>
    /\ UNCHANGED <<cbVars, mutex, config, bleVars, retryConfig, vehicle, conn,
                   lastHealthCheck, envVars, now, started, ctxErr, wakeAt,
                   callCount, script, consecFail, atStart>>
\* the probe c.vehicle.GetState returns; the deferred Unlock
HealthProbeReturn(t, ok) ==
    /\ At(t, "io")
    /\ Top(t).op = "checkConnectionHealth"
    /\ healthMutex' = 0
    /\ lastHealthReturn' = now
    /\ IF ok
       THEN lastHealthCheck' = now /\ Return(t, Nil)
       ELSE /\ UNCHANGED lastHealthCheck
            /\ Return(t, [chain |-> ErrConnectionLost.chain,
                          msg |-> ErrConnectionLost.msg \o <<": ">>
                                  \o TransportError.msg])
    /\ UNCHANGED <<cbVars, mutex, config, bleVars, retryConfig, vehicle, conn,
                   envVars, now, started, ctxErr, wakeAt, callCount, script,
                   consecFail, atStart>>

\* ---- ensureConnection
EnsureNotConnected(t) ==
    /\ vehicle = 0 \/ conn = 0
    /\ Immediate(t, "ensureConnection", ErrNotConnected)
    /\ UNCHANGED <<cbVars, mutex, config, bleVars, clientVars, envVars, now, wakeAt,
                   callCount, script, consecFail>>
StartEnsure(t) ==
    /\ vehicle # 0 /\ conn # 0
    /\ Begin(t, <<NewFrame("ensureConnection", "health"),
                  NewFrame("checkConnectionHealth", "hlock")>>, Nil)
    /\ UNCHANGED <<cbVars, mutex, config, bleVars, clientVars, envVars, now, wakeAt,
                   callCount, script, consecFail>>
\* EnsureAfterHealth starting the new Connect without closing the old one
EnsureAfterHealthNoTeardown(t) ==
    /\ At(t, "healthRet")
    /\ IF Top(t).err = Nil
       THEN Return(t, Nil)
       ELSE /\ stack' = [stack EXCEPT ![t] =
                  Append([@ EXCEPT ![Len(@)] = [Top(t) EXCEPT !.pc = "reconnect"]],
                         NewFrame("Connect", "ctx"))]
            /\ UNCHANGED result
    /\ UNCHANGED <<cbVars, mutex, config, bleVars, clientVars, envVars, now,
                   started, ctxErr, wakeAt, callCount, script, consecFail,
                   atStart>>
\* after checkConnectionHealth: healthy, or Disconnect and then Connect
EnsureAfterHealth(t) ==
    /\ At(t, "healthRet")
    /\ IF Top(t).err = Nil
       THEN Return(t, Nil) /\ UNCHANGED live
       ELSE /\ live' = Closed(live)
            /\ stack' = [stack EXCEPT ![t] =
                  Append([@ EXCEPT ![Len(@)] = [Top(t) EXCEPT !.pc = "reconnect"]],
                         NewFrame("Connect", "ctx"))]
            /\ UNCHANGED result
    /\ UNCHANGED <<cbVars, mutex, config, bleVars, clientVars, nextHandle, now,
                   started, ctxErr, wakeAt, callCount, script, consecFail,
                   atStart>>
\* return c.Connect(ctx, privateKeyFile)
EnsureReturn(t) ==
    /\ At(t, "reconnectRet")
    /\ Return(t, Top(t).err)
    /\ UNCHANGED <<cbVars, mutex, config, bleVars, clientVars, envVars, now, started,
                   ctxErr, wakeAt, callCount, script, consecFail, atStart>>

\* ------------------------------------------------------- BLEConnection
\* (ble_manager.go)  One BLEConnection, bc; bc.conn and bc.vehicle hold the
\* transport handle the vehicle was built on, 0 for nil.
BLEOps == {"BLEConnection.Disconnect", "Reconnect", "BLEConnection.StartSession"}
\* a caller calls Disconnect or Reconnect
StartBLEOp(t, op) ==
    /\ op \in {"BLEConnection.Disconnect", "Reconnect"}
    /\ Begin(t, <<NewFrame(op, "bcLock")>>, Nil)
    /\ UNCHANGED <<cbVars, mutex, config, bleVars, clientVars, envVars, now,
                   wakeAt, callCount, script, consecFail>>
\* a caller calls StartSession, which dereferences bc.vehicle: callers do so
\* only on a connection that holds a vehicle
StartBLESession(t) ==
    /\ bc.vehicle # 0
    /\ Begin(t, <<NewFrame("BLEConnection.StartSession", "bcLock")>>, Nil)
    /\ UNCHANGED <<cbVars, mutex, config, bleVars, clientVars, envVars, now,
                   wakeAt, callCount, script, consecFail>>
\* bc.mutex.Lock()
BLELock(t) ==
    /\ At(t, "bcLock")
    /\ bcMutex = 0
    /\ bcMutex' = t
    /\ stack' = SetTop(t, [Top(t) EXCEPT !.pc = "bcBody"])
    /\ UNCHANGED <<cbVars, mutex, config, bc, bm, clientVars, envVars, now,
                   started, ctxErr, wakeAt, result, callCount, script,
                   consecFail, atStart>>
\* the handles bc.vehicle.Disconnect() and bc.conn.Close() close
BLEClosed(handles) == handles \ {bc.vehicle, bc.conn}
\* the fields after the teardown of Disconnect and Reconnect
TornDown ==
    [bc EXCEPT !.state = "Disconnected", !.sessionActive = FALSE,
               !.vehicle = 0, !.conn = 0]
\* BLEDisconnect leaving bc.vehicle and bc.conn set, as Client.Disconnect does
BLEDisconnectKeep(t) ==
    /\ At(t, "bcBody")
    /\ Top(t).op = "BLEConnection.Disconnect"
    /\ live' = BLEClosed(live)
    /\ bc' = [bc EXCEPT !.state = "Disconnected", !.sessionActive = FALSE]
    /\ bcMutex' = 0
    /\ Return(t, Nil)
    /\ UNCHANGED <<cbVars, mutex, config, bm, clientVars, nextHandle, now,
                   started, ctxErr, wakeAt, callCount, script, consecFail,
                   atStart>>
\* Disconnect under the lock, and the deferred Unlock
BLEDisconnect(t) ==
    /\ At(t, "bcBody")
    /\ Top(t).op = "BLEConnection.Disconnect"
    /\ live' = BLEClosed(live)
    /\ bc' = TornDown
    /\ bcMutex' = 0
    /\ Return(t, Nil)
    /\ UNCHANGED <<cbVars, mutex, config, bm, clientVars, nextHandle, now,
                   started, ctxErr, wakeAt, callCount, script, consecFail,
                   atStart>>
\* ReconnectTeardown resetting the fields without closing what they held
ReconnectTeardownLeak(t) ==
    /\ At(t, "bcBody")
    /\ Top(t).op = "Reconnect"
    /\ bc' = TornDown
    /\ stack' = SetTop(t, [Top(t) EXCEPT !.pc = "bcOpen"])
    /\ UNCHANGED <<cbVars, mutex, config, bcMutex, bm, clientVars, envVars,
                   now, started, ctxErr, wakeAt, result, callCount, script,
                   consecFail, atStart>>
\* Reconnect: "Disconnect first" and "Reset state"
ReconnectTeardown(t) ==
    /\ At(t, "bcBody")
    /\ Top(t).op = "Reconnect"
    /\ live' = BLEClosed(live)
    /\ bc' = TornDown
    /\ stack' = SetTop(t, [Top(t) EXCEPT !.pc = "bcOpen"])
    /\ UNCHANGED <<cbVars, mutex, config, bcMutex, bm, clientVars,
                   nextHandle, now, started, ctxErr, wakeAt, result,
                   callCount, script, consecFail, atStart>>
\* a step of Reconnect fails with e: state Error, lastError, deferred Unlock
ReconnectFails(t, prefix, e) ==
    /\ bc' = [bc EXCEPT !.state = "Error", !.lastError = e]
    /\ bcMutex' = 0
    /\ Return(t, Wrap(prefix, e))
\* Reconnect: ble.NewConnectionFromScanResult returns
ReconnectOpen(t, ok) ==
    /\ At(t, "bcOpen")
    /\ IF ok
       THEN /\ nextHandle <= MaxHandles
            /\ live' = live \cup {nextHandle}
            /\ nextHandle' = nextHandle + 1
            /\ stack' = SetTop(t, [Top(t) EXCEPT !.pc = "bcNewVehicle",
                                                 !.h = nextHandle])
            /\ UNCHANGED <<bc, bcMutex, result>>
       ELSE /\ ReconnectFails(t, "failed to create new connection",
                              TransportError)
            /\ UNCHANGED <<live, nextHandle>>
    /\ UNCHANGED <<cbVars, mutex, config, bm, clientVars, now, started,
                   ctxErr, wakeAt, callCount, script, consecFail, atStart>>
\* Reconnect: vehicle.NewVehicle returns; conn.Close() if it failed
ReconnectNewVehicle(t, ok) ==
    /\ At(t, "bcNewVehicle")
    /\ IF ok
       THEN /\ stack' = SetTop(t, [Top(t) EXCEPT !.pc = "bcConnect"])
            /\ UNCHANGED <<bc, bcMutex, result, live>>
       ELSE /\ live' = live \ {Top(t).h}
            /\ ReconnectFails(t, "failed to create vehicle instance",
                              NewError("invalid vehicle"))
    /\ UNCHANGED <<cbVars, mutex, config, bm, clientVars, nextHandle, now,
                   started, ctxErr, wakeAt, callCount, script, consecFail,
                   atStart>>
\* ReconnectCarConnect keeping the lastError of the failure before it
ReconnectCarConnectStale(t, ok) ==
    /\ At(t, "bcConnect")
    /\ IF ok
       THEN /\ bc' = [bc EXCEPT !.conn = Top(t).h, !.vehicle = Top(t).h,
                                !.state = "Connected"]
            /\ bcMutex' = 0
            /\ Return(t, Nil)
            /\ UNCHANGED live
       ELSE /\ live' = live \ {Top(t).h}
            /\ ReconnectFails(t, "failed to connect to vehicle",
                              TransportError)
    /\ UNCHANGED <<cbVars, mutex, config, bm, clientVars, nextHandle, now,
                   started, ctxErr, wakeAt, callCount, script, consecFail,
                   atStart>>
\* Reconnect: car.Connect returns; conn.Close() if it failed, else "Update
\* connection" and the deferred Unlock
ReconnectCarConnect(t, ok) ==
    /\ At(t, "bcConnect")
    /\ IF ok
       THEN /\ bc' = [bc EXCEPT !.conn = Top(t).h, !.vehicle = Top(t).h,
                                !.state = "Connected", !.lastError = Nil]
            /\ bcMutex' = 0
            /\ Return(t, Nil)
            /\ UNCHANGED live
       ELSE /\ live' = live \ {Top(t).h}
            /\ ReconnectFails(t, "failed to connect to vehicle",
                              TransportError)
    /\ UNCHANGED <<cbVars, mutex, config, bm, clientVars, nextHandle, now,
                   started, ctxErr, wakeAt, callCount, script, consecFail,
                   atStart>>
\* StartSession calls bc.vehicle.StartSession
BLESessionCall(t) ==
    /\ At(t, "bcBody")
    /\ Top(t).op = "BLEConnection.StartSession"
    /\ stack' = SetTop(t, [Top(t) EXCEPT !.pc = "bcSession"])
    /\ UNCHANGED <<cbVars, mutex, config, bleVars, clientVars, envVars, now,
                   started, ctxErr, wakeAt, result, callCount, script,
                   consecFail, atStart>>
\* bc.vehicle.StartSession returns; the deferred Unlock
BLESessionReturn(t, ok) ==
    /\ At(t, "bcSession")
    /\ IF ok
       THEN /\ bc' = [bc EXCEPT !.state = "SessionActive",
                                !.sessionActive = TRUE, !.lastError = Nil]
            /\ Return(t, Nil)
       ELSE /\ bc' = [bc EXCEPT !.state = "Error",
                                !.lastError = TransportError]
            /\ Return(t, Wrap("failed to start session", TransportError))
    /\ bcMutex' = 0
    /\ UNCHANGED <<cbVars, mutex, config, bm, clientVars, envVars, now,
                   started, ctxErr, wakeAt, callCount, script, consecFail,
                   atStart>>

\* ---- BLEManager.ConnectToVehicle builds the BLEConnection the caller then
\* uses; the model follows one BLEConnection, so a new one is created when
\* the previous one holds nothing and nobody is inside it
StartConnectToVehicle(t) ==
    /\ bc.conn = 0 /\ bc.vehicle = 0 /\ bcMutex = 0
    /\ Begin(t, <<NewFrame("ConnectToVehicle", "cvScan")>>, Nil)
    /\ UNCHANGED <<cbVars, mutex, config, bleVars, clientVars, envVars, now,
                   wakeAt, callCount, script, consecFail>>
\* bm.ScanForVehicle returns
ConnectToVehicleScan(t, ok) ==
    /\ At(t, "cvScan")
    /\ IF ok
       THEN /\ stack' = SetTop(t, [Top(t) EXCEPT !.pc = "cvOpen"])
            /\ UNCHANGED result
       ELSE Return(t, Wrap("failed to scan for vehicle",
                           Wrap("failed to scan for vehicle", TransportError)))
    /\ UNCHANGED <<cbVars, mutex, config, bleVars, clientVars, envVars, now,
                   started, ctxErr, wakeAt, callCount, script, consecFail,
                   atStart>>
\* ble.NewConnectionFromScanResult returns
ConnectToVehicleOpen(t, ok) ==
    /\ At(t, "cvOpen")
    /\ IF ok
       THEN /\ nextHandle <= MaxHandles
            /\ live' = live \cup {nextHandle}
            /\ nextHandle' = nextHandle + 1
            /\ stack' = SetTop(t, [Top(t) EXCEPT !.pc = "cvNewVehicle",
                                                 !.h = nextHandle])
            /\ UNCHANGED result
       ELSE /\ Return(t, Wrap("failed to create BLE connection", TransportError))
            /\ UNCHANGED <<live, nextHandle>>
    /\ UNCHANGED <<cbVars, mutex, config, bleVars, clientVars, now, started,
                   ctxErr, wakeAt, callCount, script, consecFail, atStart>>
\* vehicle.NewVehicle returns; conn.Close() if it failed
ConnectToVehicleNewVehicle(t, ok) ==
    /\ At(t, "cvNewVehicle")
    /\ IF ok
       THEN /\ stack' = SetTop(t, [Top(t) EXCEPT !.pc = "cvConnect"])
            /\ UNCHANGED <<result, live>>
       ELSE /\ live' = live \ {Top(t).h}
            /\ Return(t, Wrap("failed to create vehicle instance",
                              NewError("invalid vehicle")))
    /\ UNCHANGED <<cbVars, mutex, config, bleVars, clientVars, nextHandle, now,
                   started, ctxErr, wakeAt, callCount, script, consecFail,
                   atStart>>
\* car.Connect returns; conn.Close() if it failed, else the BLEConnection
\* is built: conn, vehicle, state StateConnected, every other field zero
ConnectToVehicleConnect(t, ok) ==
    /\ At(t, "cvConnect")
    /\ IF ok
       THEN /\ bc' = [conn |-> Top(t).h, vehicle |-> Top(t).h,
                      state |-> "Connected", lastError |-> Nil,
                      sessionActive |-> FALSE]
            /\ Return(t, Nil)
            /\ UNCHANGED live
       ELSE /\ live' = live \ {Top(t).h}
            /\ Return(t, Wrap("failed to connect to vehicle", TransportError))
            /\ UNCHANGED bc
    /\ UNCHANGED <<cbVars, mutex, config, bcMutex, bm, clientVars, nextHandle,
                   now, started, ctxErr, wakeAt, callCount, script, consecFail,
                   atStart>>

\* ---- the readers of a BLEConnection
BLEReaders == {"BLEConnection.GetState", "BLEConnection.IsConnected",
               "BLEConnection.IsSessionActive",
               "BLEConnection.GetConnectionInfo"}
\* the transitions of a BLEConnection
BLEWriters == {"BLEConnection.Disconnect", "Reconnect",
               "BLEConnection.StartSession"}
\* what each reader computes from the fields
BLEReadValue(op) ==
    CASE op = "BLEConnection.GetState" -> [state |-> bc.state]
      [] op = "BLEConnection.IsConnected" ->
            [connected |-> bc.state \in {"Connected", "SessionActive"}]
      [] op = "BLEConnection.IsSessionActive" ->
            [active |-> bc.state = "SessionActive" /\ bc.sessionActive]
      [] OTHER ->
            [state |-> bc.state, session_active |-> bc.sessionActive,
             last_error |-> bc.lastError.msg]
\* a caller calls a reader; the frame notes who held bc.mutex at that moment
StartBLERead(t, op) ==
    /\ op \in BLEReaders
    /\ Begin(t, <<[op |-> op, pc |-> "bcRLock", attempt |-> 0,
                   lastErr |-> Nil, err |-> Nil, h |-> 0,
                   holder |-> bcMutex]>>, Nil)
    /\ UNCHANGED <<cbVars, mutex, config, bleVars, clientVars, envVars, now,
                   wakeAt, callCount, script, consecFail>>
\* BLERead without taking the read lock
BLEReadUnlocked(t) ==
    /\ At(t, "bcRLock")
    /\ stack' = [stack EXCEPT ![t] = <<>>]
    /\ result' = [result EXCEPT ![t] =
                     [op |-> Top(t).op, err |-> Nil, returned |-> TRUE,
                      holder |-> Top(t).holder,
                      value |-> BLEReadValue(Top(t).op)]]
    /\ UNCHANGED <<cbVars, mutex, config, bleVars, clientVars, envVars, now,
                   started, ctxErr, wakeAt, callCount, script, consecFail,
                   atStart>>
\* bc.mutex.RLock(), which waits while a transition holds the lock, the
\* read of the fields, and the deferred RUnlock
BLERead(t) ==
    /\ At(t, "bcRLock")
    /\ bcMutex = 0
    /\ stack' = [stack EXCEPT ![t] = <<>>]
    /\ result' = [result EXCEPT ![t] =
                     [op |-> Top(t).op, err |-> Nil, returned |-> TRUE,
                      holder |-> Top(t).holder,
                      value |-> BLEReadValue(Top(t).op)]]
    /\ UNCHANGED <<cbVars, mutex, config, bleVars, clientVars, envVars, now,
                   started, ctxErr, wakeAt, callCount, script, consecFail,
                   atStart>>

\* ------------------------------------------- BLEManager.RetryWithBackoff
\* a caller calls bm.RetryWithBackoff(ctx, operation) with the test function
\* of script k and a context whose error is c (Nil: not cancelled)
StartBLERetry(t, k, c) ==
    /\ Begin(t, <<NewFrame("BLEManager.RetryWithBackoff", "bmLoop")>>, c)
    /\ script' = [script EXCEPT ![t] = k]
    /\ callCount' = [callCount EXCEPT ![t] = 0]
    /\ UNCHANGED <<cbVars, mutex, config, bleVars, clientVars, envVars, now,
                   wakeAt, consecFail>>
\* fmt.Errorf("operation failed after %d attempts: %w", bm.maxRetries, lastErr)
BLEExhausted(attempts, last) ==
    [chain |-> last.chain,
     msg |-> <<"operation failed after ", attempts, " attempts: ">> \o last.msg]
\* the loop condition, and the start of the wait before every attempt but
\* the first
BLERetryLoop(t) ==
    /\ At(t, "bmLoop")
    /\ LET f == Top(t) IN
       IF f.attempt >= bm.maxRetries
       THEN /\ Return(t, BLEExhausted(bm.maxRetries, f.lastErr))
            /\ UNCHANGED wakeAt
       ELSE IF f.attempt > 0
       THEN /\ wakeAt' = [wakeAt EXCEPT ![t] = now + bm.retryInterval * f.attempt]
            /\ stack' = SetTop(t, [f EXCEPT !.pc = "bmWait"])
            /\ UNCHANGED result
       ELSE /\ stack' = SetTop(t, [f EXCEPT !.pc = "bmOp"])
            /\ UNCHANGED <<result, wakeAt>>
    /\ UNCHANGED <<cbVars, mutex, config, bleVars, clientVars, envVars, now,
                   started, ctxErr, callCount, script, consecFail, atStart>>
\* select: <-ctx.Done()
BLERetryCancelled(t) ==
    /\ At(t, "bmWait")
    /\ ctxErr[t] # Nil
    /\ Return(t, ctxErr[t])
    /\ UNCHANGED <<cbVars, mutex, config, bleVars, clientVars, envVars, now,
                   started, ctxErr, wakeAt, callCount, script, consecFail,
                   atStart>>
\* select: <-time.After(...) ; it can be chosen when the context is not
\* cancelled, or when the timer has expired as well (select then picks
\* either case)
BLERetryWake(t) ==
    /\ At(t, "bmWait")
    /\ (ctxErr[t] # Nil) => (wakeAt[t] <= now)
    /\ now' = Max(now, wakeAt[t])
    /\ wakeAt' = [wakeAt EXCEPT ![t] = 0]
    /\ stack' = SetTop(t, [Top(t) EXCEPT !.pc = "bmOp"])
    /\ UNCHANGED <<cbVars, mutex, config, bleVars, clientVars, envVars,
                   started, ctxErr, result, callCount, script, consecFail,
                   atStart>>
\* err := operation()
BLERetryOperation(t) ==
    /\ At(t, "bmOp")
    /\ callCount' = [callCount EXCEPT ![t] = @ + 1]
    /\ IF FnFails(t)
       THEN /\ stack' = SetTop(t, [Top(t) EXCEPT !.pc = "bmLoop",
                                     !.attempt = @ + 1, !.lastErr = TestError])
            /\ UNCHANGED result
       ELSE Return(t, Nil)
    /\ UNCHANGED <<cbVars, mutex, config, bleVars, clientVars, envVars, now,
                   started, ctxErr, wakeAt, script, consecFail, atStart>>

\* ------------------------------------------------------- configurations
\* the configurations Config.Validate accepts (config.go:183-263)
CircuitBreakerConfigs ==
    [MaxFailures : 1..MaxFailuresBound,
     ResetTimeout : 1..ResetTimeoutBound,
     HalfOpenMaxCalls : 1..HalfOpenBound]
RetryConfigs ==
    [MaxRetries : 0..MaxRetriesBound, InitialDelay : {1}, MaxDelay : {2},
     BackoffFactor : {2 * FactorDen}, Jitter : BOOLEAN]

\* NewBLEManager
NewBLEManager == [maxRetries |-> 3, retryInterval |-> 2]
\* a BLEConnection that holds nothing
ZeroBLEConnection ==
    [conn |-> 0, vehicle |-> 0, state |-> "Disconnected", lastError |-> Nil,
     sessionActive |-> FALSE]

\* NewCircuitBreaker, NewClientWithConfig
InitBase ==
    /\ state = "Closed"
    /\ failureCount = 0
    /\ successCount = 0
    /\ lastFailTime = ZeroTime
    /\ mutex = 0
    /\ vehicle = 0
    /\ conn = 0
    /\ lastHealthCheck = ZeroTime
    /\ lastHealthReturn = ZeroTime
    /\ bc = ZeroBLEConnection
    /\ bcMutex = 0
    /\ healthMutex = 0
    /\ live = {}
    /\ nextHandle = 1
    /\ now = 0
    /\ started = 0
    /\ stack = [t \in Callers |-> <<>>]
    /\ ctxErr = [t \in Callers |-> Nil]
    /\ wakeAt = [t \in Callers |-> 0]
    /\ result = [t \in Callers |-> NoResult]
    /\ callCount = [t \in Callers |-> 0]
    /\ script = [t \in Callers |-> 0]
    /\ consecFail = 0
    /\ atStart = [t \in Callers |->
                    [state |-> "Closed", failureCount |-> 0,
                     connected |-> FALSE, nextHandle |-> 1,
                     rejecting |-> FALSE]]
InitFields ==
    /\ InitBase
    /\ bm = NewBLEManager
InitCommon ==
    /\ InitFields
    /\ config \in CircuitBreakerConfigs

\* ----------------------------- concurrent callers of one CircuitBreaker
InitCB ==
    /\ InitCommon
    /\ retryConfig = [MaxRetries |-> 0, InitialDelay |-> 1, MaxDelay |-> 2,
                      BackoffFactor |-> 2 * FactorDen, Jitter |-> FALSE]
NextCB ==
    \/ Tick
    \/ \E t \in Callers :
          \/ \E fails \in BOOLEAN : StartCall(t, fails)
          \/ CallLock(t)
          \/ CallCheck(t)
          \/ FnScripted(t)
          \/ CallUpdate(t)
          \/ CallUnlock(t)
SpecCB == InitCB /\ [][NextCB]_vars

\* ------------------------------------------------------- properties
Stepped(t) == stack'[t] # stack[t]
WithinResetTimeout == ~SinceExceeds(lastFailTime, config.ResetTimeout)

C10_CallsSerialized ==
    /\ [](Cardinality({t \in Callers : InCall(t)}) <= 1)
    /\ [][cbVars' # cbVars =>
            \E t \in Callers :
                /\ InCall(t) /\ Stepped(t)
                /\ \A u \in Callers \ {t} : ~InCall(u) /\ ~InCall(u)']_vars
C10_Witness ==
    \E t, u \in Callers :
        /\ t # u
        /\ At(t, "fn") /\ At(u, "lock")

\* ----------------------------- one caller of Client.retryWithBackoff
CtxErrors == {Canceled, DeadlineExceeded}
Scripts == {Always} \cup (0..MaxRetriesBound)
\* one caller never finds the breaker HalfOpen with successCount > 0, so
\* HalfOpenMaxCalls is kept at 1; jitter is on, as in NewClient's defaults
InitRetry ==
    /\ InitCommon
    /\ config.HalfOpenMaxCalls = 1
    /\ retryConfig \in {r \in RetryConfigs : r.Jitter}
NextRetry ==
    \/ Tick
    \/ \E k \in Scripts, c \in {Nil} \cup CtxErrors : StartRetry(1, k, c)
    \/ \E e \in CtxErrors : CtxDone(1, e)
    \/ RetryCtxCheck(1)
    \/ CallLock(1)
    \/ CallCheck(1)
    \/ FnScripted(1)
    \/ CallUpdate(1)
    \/ CallUnlock(1)
    \/ RetryAfter(1)
    \/ RetryWake(1)
    \/ RetrySleepCancelled(1)
SpecRetry == InitRetry /\ [][NextRetry]_vars

\* a retryWithBackoff begun on a Closed breaker has returned, and its
\* context was never cancelled
RetryReturned(t) ==
    /\ result[t].returned /\ result[t].op = "retryWithBackoff"
    /\ ctxErr[t] = Nil
    /\ atStart[t].state = "Closed"

\* C4 as stated: for an always-failing function the function is invoked
\* exactly maxRetries+1 times and the error is the retry-exhausted error
\* naming the label, maxRetries+1 attempts and the function's failure, for
\* every RetryConfig and every CircuitBreakerConfig.
C4_AsStated ==
    \A t \in Callers :
        RetryReturned(t) /\ script[t] = Always
            => /\ callCount[t] = retryConfig.MaxRetries + 1
               /\ result[t].err = Exhausted("test_op",
                                      retryConfig.MaxRetries + 1, TestError)

\* C4 amended: the returned error is always the retry-exhausted error naming
\* the label, maxRetries+1 attempts and the last attempt's error, and the
\* function is invoked at most maxRetries+1 times; it is invoked exactly
\* maxRetries+1 times when the breaker cannot open before the last attempt
\* (maxRetries = 0, or failureCount + maxRetries + 1 <= maxFailures at the
\* start).
C4_ExhaustedWhileBreakerClosed ==
    \A t \in Callers :
        RetryReturned(t) /\ script[t] = Always
            => /\ result[t].err \in
                    {Exhausted("test_op", retryConfig.MaxRetries + 1, e) :
                        e \in {TestError, ErrCircuitOpen}}
               /\ Is(result[t].err, ErrRetryExhausted)
               /\ callCount[t] >= 1
               /\ callCount[t] <= retryConfig.MaxRetries + 1
               /\ (\/ retryConfig.MaxRetries = 0
                   \/ atStart[t].failureCount + retryConfig.MaxRetries + 1
                        <= config.MaxFailures)
                    => /\ callCount[t] = retryConfig.MaxRetries + 1
                       /\ result[t].err = Exhausted("test_op",
                                      retryConfig.MaxRetries + 1, TestError)
C4_Witness ==
    /\ RetryReturned(1) /\ script[1] = Always
    /\ retryConfig.MaxRetries = 2 /\ config.MaxFailures = 3
    /\ callCount[1] = 3
    /\ result[1].err.msg = <<"retry attempts exhausted", ": ", "test_op",
                             " failed after ", "3", " attempts: ",
                             "test error">>

\* C5 as stated: a function failing its first k <= maxRetries invocations is
\* invoked exactly k+1 times and retryWithBackoff returns nil, for every
\* RetryConfig and every CircuitBreakerConfig.
C5_AsStated ==
    \A t \in Callers :
        RetryReturned(t) /\ script[t] \in 0..retryConfig.MaxRetries
            => callCount[t] = script[t] + 1 /\ result[t].err = Nil

\* C5 amended: the same, when the k failures cannot open the breaker
\* (k = 0, or failureCount + k < maxFailures at the start); in every case
\* the function is invoked at most k+1 times.
C5_SucceedsWhileBreakerClosed ==
    \A t \in Callers :
        RetryReturned(t) /\ script[t] \in 0..retryConfig.MaxRetries
            => /\ callCount[t] <= script[t] + 1
               /\ (\/ script[t] = 0
                   \/ atStart[t].failureCount + script[t] < config.MaxFailures)
                    => callCount[t] = script[t] + 1 /\ result[t].err = Nil
C5_Witness ==
    /\ RetryReturned(1) /\ script[1] = 2
    /\ retryConfig.MaxRetries = 2 /\ config.MaxFailures = 3
    /\ callCount[1] = 3 /\ result[1].err = Nil
    /\ failureCount = 0 /\ state = "Closed"

\* ----------------------------- one caller of the Client's operations
ClientOps == RetryOps \ {"retryWithBackoff"}
ClientBreakerConfigs ==
    {c \in CircuitBreakerConfigs :
        /\ c.MaxFailures <= ClientMaxFailuresBound
        /\ c.ResetTimeout = ResetTimeoutBound
        /\ c.HalfOpenMaxCalls = 1}
ClientRetryConfigs ==
    {r \in RetryConfigs : r.MaxRetries <= ClientMaxRetriesBound /\ r.Jitter}
InitClient ==
    /\ InitCommon
    /\ config \in ClientBreakerConfigs
    /\ retryConfig \in ClientRetryConfigs
\* the steps by which a caller that is inside an operation goes on
Continue(t) ==
    \/ RetryCtxCheck(t)
    \/ CallLock(t)
    \/ CallCheck(t)
    \/ FnHVAC(t)
    \/ \E o \in HVACOutcomes : HVACReturn(t, o)
    \/ FnGetter(t)
    \/ FnConnect(t)
    \/ \E ok \in BOOLEAN : Scan(t, ok)
    \/ \E ok \in BOOLEAN : Open(t, ok)
    \/ \E o \in NewVehicleOutcomes : NewVehicle(t, o)
    \/ \E ok \in BOOLEAN : CarConnect(t, ok)
    \/ \E ok \in BOOLEAN : StartSession(t, ok)
    \/ CallUpdate(t)
    \/ CallUnlock(t)
    \/ RetryAfter(t)
    \/ RetryWake(t)
    \/ RetrySleepCancelled(t)
    \/ \E ok \in BOOLEAN : SetAutoModeReturn(t, ok)
    \/ HealthLock(t)
    \/ HealthCheck(t)
    \/ \E ok \in BOOLEAN : HealthProbeReturn(t, ok)
    \/ EnsureAfterHealth(t)
    \/ EnsureReturn(t)
NextClient ==
    \/ Tick
    \/ \E op \in ClientOps : StartRetryOp(1, op)
    \/ CtxDone(1, DeadlineExceeded)
    \/ Disconnect(1)
    \/ SetAutoModeNotConnected(1)
    \/ StartSetAutoMode(1)
    \/ StartHealthCheck(1)
    \/ EnsureNotConnected(1)
    \/ StartEnsure(1)
    \/ Continue(1)
SpecClient == InitClient /\ [][NextClient]_vars
\* The Go scheduler runs every goroutine that can take a step, timers fire
\* and transport calls return: a caller that can go on eventually does.
FairSpecClient == SpecClient /\ WF_vars(Continue(1))

\* the first frame of a caller is the operation it was asked to run
Running(t, ops) == Busy(t) /\ stack[t][1].op \in ops

\* C1: GetFanSpeed, GetAirflowPattern and GetAutoMode, called on a Client
\* whose breaker is Closed, eventually return to the caller, and on a Client
\* that was never connected they return a non-nil error.
C1_GettersReturn ==
    /\ \A t \in Callers :
          (Running(t, GetterOps) /\ atStart[t].state = "Closed") ~> ~Busy(t)
    /\ [](\A t \in Callers :
            result[t].returned /\ result[t].op \in GetterOps /\ vehicle = 0
                => result[t].err # Nil)

\* C6: at every moment at most one transport handle opened by the Client is
\* live (opened and not yet closed).
C6_OneLiveHandle == Cardinality(live) <= 1

\* C7: after Disconnect has returned, IsConnected reports false.
C7_DisconnectedAfterDisconnect ==
    \A t \in Callers :
        result[t].returned /\ result[t].op = "Disconnect" => ~IsConnected

\* C8: when Connect returns an error on a Client that was not connected
\* before, no handle opened during that call is still open and IsConnected
\* reports false.
C8_FailedConnectReleases ==
    \A t \in Callers :
        ( /\ result[t].returned /\ result[t].op = "Connect"
          /\ result[t].err # Nil /\ ~atStart[t].connected )
            => /\ ~IsConnected
               /\ \A h \in live : h < atStart[t].nextHandle

\* C9: while the breaker is Open and resetTimeout has not elapsed since the
\* last failure, no operation begins a transport call, and a state query,
\* command, health check or connect made in that period returns an error.
TransportPcs == {"io", "scan", "open", "connect", "session"}
InTransport(t) == Busy(t) /\ Top(t).pc \in TransportPcs
BreakerRejecting == state = "Open" /\ WithinResetTimeout
C9_NoTransportWhileOpen ==
    /\ [][\A t \in Callers :
            BreakerRejecting /\ ~InTransport(t) => ~InTransport(t)']_vars
    /\ [](\A t \in Callers :
            ( /\ result[t].returned /\ result[t].op # "Disconnect"
              /\ atStart[t].rejecting /\ BreakerRejecting )
                => result[t].err # Nil)

\* ----------------------- concurrent callers of one Client's operations
\* each attempt is the only one (MaxRetries 0), so no caller sleeps; the
\* operations overlap within one reading of the clock; the context that
\* expires is caller 1's
SharedOps == {"GetHVACState", "Connect"}
InitShared ==
    /\ InitCommon
    /\ config \in ClientBreakerConfigs
    /\ retryConfig \in {r \in RetryConfigs : r.MaxRetries = 0 /\ r.Jitter}
\* the steps a caller takes by itself
LocalStep(t) ==
    \/ RetryCtxCheck(t)
    \/ CallLock(t)
    \/ CallCheck(t)
    \/ FnHVAC(t)
    \/ FnCommand(t)
    \/ FnConnect(t)
    \/ \E o \in NewVehicleOutcomes : NewVehicle(t, o)
    \/ CallUpdate(t)
    \/ CallUnlock(t)
    \/ RetryAfter(t)
    \/ HealthLock(t)
    \/ HealthCheck(t)
\* a transport call of the vehicle library returns
TransportReturn(t) ==
    \/ \E o \in HVACOutcomes : HVACReturn(t, o)
    \/ \E ok \in BOOLEAN : CommandReturn(t, ok)
    \/ \E ok \in BOOLEAN : Scan(t, ok)
    \/ \E ok \in BOOLEAN : Open(t, ok)
    \/ \E ok \in BOOLEAN : CarConnect(t, ok)
    \/ \E ok \in BOOLEAN : StartSession(t, ok)
    \/ \E ok \in BOOLEAN : SetAutoModeReturn(t, ok)
    \/ \E ok \in BOOLEAN : HealthProbeReturn(t, ok)
StepShared(t) == LocalStep(t) \/ TransportReturn(t)
NextShared ==
    \/ CtxDone(1, DeadlineExceeded)
    \/ \E t \in Callers :
          \/ \E op \in SharedOps : StartRetryOp(t, op)
          \/ StartCommand(t, "SetClimateOn")
          \/ Disconnect(t)
          \/ SetAutoModeNotConnected(t)
          \/ StartSetAutoMode(t)
          \/ StartHealthCheck(t)
          \/ StepShared(t)
SpecShared == InitShared /\ [][NextShared]_vars
\* Every caller takes the steps it can take by itself and caller 1's
\* transport calls return; nothing is assumed about how long the transport
\* calls of the other callers take.
FairSpecShared ==
    /\ SpecShared
    /\ WF_vars(StepShared(1))
    /\ \A t \in Callers : WF_vars(LocalStep(t))

\* C11: no two transport calls made through one Client are in progress at
\* the same time, whatever the interleaving of its concurrent callers.
C11_OneTransportCall == Cardinality({t \in Callers : InTransport(t)}) <= 1

InitCancel ==
    /\ InitCommon
    /\ config \in ClientBreakerConfigs
    /\ retryConfig \in ClientRetryConfigs
NextCancel ==
    \/ \E k \in {Always, 0}, c \in {Nil} \cup CtxErrors : StartRetry(1, k, c)
    \/ StartRetryOp(1, "Connect")
    \/ \E e \in CtxErrors : CtxDone(1, e)
    \/ RetryCtxCheck(1)
    \/ CallLock(1)
    \/ CallCheck(1)
    \/ FnScripted(1)
    \/ FnConnect(1)
    \/ \E ok \in BOOLEAN : Scan(1, ok)
    \/ \E ok \in BOOLEAN : Open(1, ok)
    \/ \E o \in NewVehicleOutcomes : NewVehicle(1, o)
    \/ \E ok \in BOOLEAN : CarConnect(1, ok)
    \/ \E ok \in BOOLEAN : StartSession(1, ok)
    \/ CallUpdate(1)
    \/ CallUnlock(1)
    \/ RetryAfter(1)
    \/ RetryWake(1)
    \/ RetrySleepCancelled(1)
SpecCancel == InitCancel /\ [][NextCancel]_vars

\* C13: retryWithBackoff, and Connect, called with a context that is already
\* cancelled or past its deadline return that context's error from the first
\* ctx.Done() check: the function has not been invoked and there was no sleep.
C13_PreCancelledReturnsCtxErr ==
    [][\A t \in Callers :
          ( /\ At(t, "ctx") /\ Len(stack[t]) = 1 /\ Top(t).attempt = 0
            /\ ctxErr[t] \in CtxErrors /\ Stepped(t) )
              => /\ ~Busy(t)'
                 /\ result'[t].returned /\ result'[t].err = ctxErr[t]
                 /\ callCount'[t] = 0 /\ wakeAt' = wakeAt /\ now' = now]_vars
C13_Witness ==
    /\ result[1].returned /\ result[1].op = "Connect"
    /\ result[1].err = DeadlineExceeded /\ callCount[1] = 0
    /\ nextHandle = 1

\* C14: when the context is cancelled or expires while retryWithBackoff waits
\* between two attempts, the wait ends with the context's error, or, if the
\* timer fired as well, the ctx.Done() check that follows does; the function
\* is not invoked again and no retry-exhausted error is returned.
C14_CancelledDuringWait ==
    /\ [][\A t \in Callers :
            (At(t, "sleep") /\ ctxErr[t] # Nil /\ Stepped(t))
              => /\ callCount' = callCount
                 /\ \/ ~Busy(t)' /\ result'[t].returned
                                 /\ result'[t].err = ctxErr[t]
                    \/ At(t, "ctx")' /\ Top(t)'.attempt > 0]_vars
    /\ [][\A t \in Callers :
            (At(t, "ctx") /\ Top(t).attempt > 0 /\ ctxErr[t] # Nil /\ Stepped(t))
              => /\ callCount' = callCount
                 /\ ~Busy(t)' /\ result'[t].returned
                 /\ result'[t].err = ctxErr[t]]_vars
C14_Witness ==
    /\ result[1].returned /\ result[1].op = "retryWithBackoff"
    /\ result[1].err = DeadlineExceeded
    /\ script[1] = Always /\ callCount[1] = 1 /\ retryConfig.MaxRetries = 2

\* C15: when N >= maxFailures callers each Call a Closed breaker once,
\* concurrently, with failing functions, and resetTimeout does not elapse,
\* then once all have returned exactly maxFailures functions were invoked,
\* their callers got the function's error, the other N - maxFailures callers
\* got ErrCircuitOpen, failureCount is maxFailures and the state is Open.
Called == {t \in Callers : Busy(t) \/ result[t].returned}
C15_NoLostFailure ==
    ( /\ started = Cardinality(Called)
      /\ \A t \in Called : ~Busy(t) /\ script[t] = Always
      /\ Cardinality(Called) >= config.MaxFailures
      /\ now <= config.ResetTimeout )
        => LET invoked == {t \in Called : callCount[t] = 1} IN
           /\ Cardinality(invoked) = config.MaxFailures
           /\ \A t \in invoked : result[t].err = TestError
           /\ \A t \in Called \ invoked :
                 callCount[t] = 0 /\ result[t].err = ErrCircuitOpen
           /\ failureCount = config.MaxFailures
           /\ state = "Open"
C15_Witness ==
    /\ started = 2 /\ Called = {1, 2}
    /\ ~Busy(1) /\ ~Busy(2)
    /\ script[1] = Always /\ script[2] = Always
    /\ config.MaxFailures = 1 /\ now = 0
    /\ result[1].err = ErrCircuitOpen /\ callCount[2] = 1

\* C16: on a Client that was never connected every HVAC operation returns
\* the ErrNotConnected sentinel itself.
HVACOps == {"GetHVACState", "SetAutoMode"} \cup GetterOps
C16_NotConnectedSentinel ==
    \A t \in Callers :
        ( /\ result[t].returned /\ result[t].op \in HVACOps
          /\ vehicle = 0 /\ conn = 0 /\ nextHandle = 1 )
            => result[t].err = ErrNotConnected

\* C17: the retry-exhausted error is comparable (errors.Is) to
\* ErrRetryExhausted and to the last attempt's error, whose text ends its
\* message: the function's error, or ErrCircuitOpen.
C17_ExhaustedWrapsLast ==
    \A t \in Callers :
        (result[t].returned /\ Is(result[t].err, ErrRetryExhausted))
          => LET text == result[t].err.msg[Len(result[t].err.msg)] IN
             /\ text = TestError.msg[1] => Is(result[t].err, TestError)
             /\ text = ErrCircuitOpen.msg[1] => Is(result[t].err, ErrCircuitOpen)

\* ------------- one caller of a never-connected Client made by NewClient
\* Durations are in eighths of a second, so that the jittered delays
\* (1.125 s, 2.25 s, 4.5 s) are whole numbers.  The backoff of one operation
\* adds up to 7.875 s, less than the 10 s and 15 s timeouts the operations
\* put on their contexts, so with the caller's context.Background() no
\* context expires.
DefaultRetryConfig ==
    [MaxRetries |-> 3, InitialDelay |-> 8, MaxDelay |-> 240,
     BackoffFactor |-> 2 * FactorDen, Jitter |-> TRUE]
DefaultBreakerConfig ==
    [MaxFailures |-> 5, ResetTimeout |-> 480, HalfOpenMaxCalls |-> 3]
InitDefault ==
    /\ InitFields
    /\ config = DefaultBreakerConfig
    /\ retryConfig = DefaultRetryConfig
\* the caller lets IdleStep pass between two operations
Idle ==
    /\ \A t \in Callers : ~Busy(t)
    /\ now < MaxIdle
    /\ now' = now + IdleStep
    /\ UNCHANGED <<cbVars, mutex, config, bleVars, clientVars, envVars, started,
                   stack, ctxErr, wakeAt, result, callCount, script,
                   consecFail, atStart>>
NextDefault ==
    \/ Idle
    \/ StartRetryOp(1, "GetHVACState")
    \/ \E op \in CommandOps : StartCommand(1, op)
    \/ RetryCtxCheck(1)
    \/ CallLock(1)
    \/ CallCheck(1)
    \/ FnHVAC(1)
    \/ FnCommand(1)
    \/ CallUpdate(1)
    \/ CallUnlock(1)
    \/ RetryAfter(1)
    \/ RetryWake(1)
SpecDefault == InitDefault /\ [][NextDefault]_vars

\* the first operation: four invocations, breaker left Closed at 4 failures
FirstOperation ==
    \A t \in Callers :
        ( /\ result[t].returned
          /\ atStart[t].state = "Closed" /\ atStart[t].failureCount = 0 )
            => /\ callCount[t] = 4
               /\ result[t].err = Exhausted(Label(result[t].op), 4, ErrNotConnected)
               /\ state = "Closed" /\ failureCount = 4
\* the second: one invocation opens the breaker, three attempts are rejected
SecondOperation ==
    \A t \in Callers :
        ( /\ result[t].returned
          /\ atStart[t].state = "Closed" /\ atStart[t].failureCount = 4 )
            => /\ callCount[t] = 1
               /\ result[t].err = Exhausted(Label(result[t].op), 4, ErrCircuitOpen)
               /\ state = "Open" /\ failureCount = 5

\* C18 as stated: ... and each later operation started before resetTimeout
\* has elapsed invokes its body zero times and fails with last error
\* 'circuit breaker is open'.
C18_AsStated ==
    /\ FirstOperation
    /\ SecondOperation
    /\ \A t \in Callers :
          (result[t].returned /\ atStart[t].rejecting)
            => /\ callCount[t] = 0
               /\ result[t].err = Exhausted(Label(result[t].op), 4, ErrCircuitOpen)

\* C18: on a never-connected Client with NewClient's configuration the first
\* operation invokes its body 4 times and fails with '... failed after 4
\* attempts: not connected to vehicle' leaving the breaker Closed with
\* failureCount 4; the next invokes its body once, which opens the breaker,
\* and fails with last error 'circuit breaker is open'; afterwards every
\* attempt made before resetTimeout has elapsed since the last failure is
\* rejected without invoking the body, and an operation started in that
\* period invokes its body at most once (when a later attempt of it falls
\* after resetTimeout), and zero times exactly when it fails with last error
\* 'circuit breaker is open' having left failureCount unchanged.
C18_DefaultSequence ==
    /\ [](FirstOperation /\ SecondOperation)
    /\ [][\A t \in Callers :
            (At(t, "check") /\ Stepped(t) /\ state = "Open" /\ WithinResetTimeout)
              => /\ At(t, "unlock")' /\ Top(t)'.err = ErrCircuitOpen
                 /\ callCount' = callCount /\ UNCHANGED cbVars]_vars
    /\ [](\A t \in Callers :
            (result[t].returned /\ atStart[t].rejecting)
              => /\ callCount[t] <= 1
                 /\ callCount[t] = 0 <=>
                      /\ failureCount = atStart[t].failureCount
                      /\ result[t].err =
                           Exhausted(Label(result[t].op), 4, ErrCircuitOpen))
C18_Witness ==
    /\ started = 3
    /\ result[1].returned /\ result[1].op = "SetClimateOn"
    /\ atStart[1].rejecting /\ callCount[1] = 0
    /\ result[1].err.msg = <<"retry attempts exhausted", ": ", "set_climate_on",
                             " failed after ", "4", " attempts: ",
                             "circuit breaker is open">>
    /\ state = "Open" /\ failureCount = 5

\* C19: when the function fails in the Call that probes recovery (HalfOpen),
\* Call returns that error, the breaker is Open again and lastFailTime is the
\* time of this failure, so that Calls are rejected without invoking the
\* function until resetTimeout has elapsed since it.
C19_HalfOpenFailureReopens ==
    /\ [][\A t \in Callers :
            ( /\ At(t, "update") /\ Stepped(t)
              /\ state = "HalfOpen" /\ Top(t).err # Nil )
              => /\ state' = "Open" /\ lastFailTime' = now
                 /\ At(t, "unlock")' /\ Top(t)'.err = Top(t).err]_vars
    /\ [][\A t \in Callers :
            ( /\ At(t, "check") /\ Stepped(t)
              /\ state = "Open" /\ now - lastFailTime <= config.ResetTimeout )
              => /\ At(t, "unlock")' /\ Top(t)'.err = ErrCircuitOpen
                 /\ state' = "Open" /\ callCount' = callCount]_vars
    /\ [](state = "Open" => lastFailTime # ZeroTime /\ lastFailTime <= now)
C19_Witness ==
    \E t \in Callers :
        /\ result[t].returned /\ result[t].op = "Call"
        /\ result[t].err = TestError /\ callCount[t] = 1
        /\ state = "Open" /\ failureCount = config.MaxFailures + 1
        /\ lastFailTime = now /\ now > config.ResetTimeout

\* --------------- calculateDelay over a range of RetryConfigs, as the
\* retry loop applies it: a function that always fails is retried MaxAttempt
\* times and the caller sleeps calculateDelay(attempt) after each failure.
\* Durations are in nanoseconds, the unit of time.Duration.
DelayConfigs ==
    [MaxRetries : {MaxAttempt}, InitialDelay : 1..InitialDelayBound,
     MaxDelay : 1..MaxDelayBound, BackoffFactor : 1..FactorBound,
     Jitter : BOOLEAN]
InitDelay ==
    /\ InitFields
    /\ config = DefaultBreakerConfig
    /\ retryConfig \in DelayConfigs
NextDelay ==
    \/ StartRetry(1, Always, Nil)
    \/ RetryCtxCheck(1)
    \/ CallLock(1)
    \/ CallCheck(1)
    \/ FnScripted(1)
    \/ CallUpdate(1)
    \/ CallUnlock(1)
    \/ RetryAfter(1)
    \/ RetryWake(1)
SpecDelay == InitDelay /\ [][NextDelay]_vars

\* C20: for every attempt index and every RetryConfig with positive
\* initialDelay, maxDelay and backoffFactor, with or without jitter, the
\* delay calculateDelay returns, which the caller then sleeps, is at most
\* maxDelay.
C20_DelayWithinMax ==
    /\ \A a \in 0..MaxAttempt : calculateDelay(a) <= retryConfig.MaxDelay
    /\ \A t \in Callers :
          At(t, "sleep") => wakeAt[t] - now <= retryConfig.MaxDelay

\* C21: with jitter disabled the delay never decreases from one attempt to
\* the next, calculateDelay(a+1) >= calculateDelay(a), for every RetryConfig
\* with positive initialDelay, maxDelay and backoffFactor; so a caller that
\* sleeps after its attempt a >= 1 sleeps at least as long as after a-1.
C21_DelayMonotonic ==
    ~retryConfig.Jitter =>
        /\ \A a \in 0..(MaxAttempt - 1) :
              calculateDelay(a + 1) >= calculateDelay(a)
        /\ \A t \in Callers :
              (At(t, "sleep") /\ Top(t).attempt > 0)
                 => wakeAt[t] - now >= calculateDelay(Top(t).attempt - 1)

\* C22: with jitter enabled, calls of calculateDelay with the same attempt
\* index at different times do not all return the same delay: once the clock
\* has advanced there are an attempt index and an earlier clock reading at
\* which the delay differs from the one returned now.
C22_JitterVaries ==
    (retryConfig.Jitter /\ now > 0) =>
        \E a \in 0..MaxAttempt : \E n \in 0..(now - 1) :
            calculateDelayAt(a, n) # calculateDelayAt(a, now)

\* C27: Call returns exactly the error its function returned: on a breaker
\* with maxFailures = 1 and no time passing between the Calls, every Call
\* whose function fails returns that function's error.
C27_CallReturnsFnError ==
    (config.MaxFailures = 1 /\ now = 0) =>
        \A t \in Callers :
            ( /\ result[t].returned /\ result[t].op = "Call"
              /\ script[t] = Always )
                => result[t].err = TestError

\* C29: every failed attempt of retryWithBackoff uses up one retry slot
\* whatever its error, ErrCircuitOpen included: after a failed attempt that
\* is not the last the caller sleeps once and the attempt index grows by
\* one, after a failed attempt with index maxRetries the call returns the
\* retry-exhausted error; so the attempt index never exceeds maxRetries and
\* the function has been invoked at most attempt index + 1 times.
C29_EveryFailureUsesSlot ==
    /\ [](\A t \in Callers :
            (Busy(t) /\ Top(t).op = "retryWithBackoff")
               => /\ Top(t).attempt \in 0..retryConfig.MaxRetries
                  /\ callCount[t] <= Top(t).attempt + 1)
    /\ [][\A t \in Callers :
            (At(t, "after") /\ Stepped(t) /\ Top(t).err # Nil)
               => IF Top(t).attempt < retryConfig.MaxRetries
                  THEN At(t, "sleep")' /\ Top(t)'.attempt = Top(t).attempt
                  ELSE ~Busy(t)' /\ Is(result'[t].err, ErrRetryExhausted)]_vars
    /\ [][\A t \in Callers :
            (At(t, "sleep") /\ Stepped(t) /\ Busy(t)')
               => At(t, "ctx")' /\ Top(t)'.attempt = Top(t).attempt + 1]_vars
\* a call that used up its slots although the breaker let only one attempt
\* through to the function
C29_Witness ==
    \E t \in Callers :
        /\ result[t].returned /\ result[t].op = "retryWithBackoff"
        /\ Is(result[t].err, ErrRetryExhausted)
        /\ retryConfig.MaxRetries = MaxRetriesBound
        /\ callCount[t] = 1
        /\ ctxErr[t] = Nil

\* C30: a Call rejected because the breaker is Open and resetTimeout has not
\* elapsed changes nothing: from taking the lock to returning ErrCircuitOpen
\* it leaves state, failureCount, successCount and lastFailTime as they were.
C30_RejectedCallChangesNothing ==
    /\ [][\A t \in Callers :
            ( /\ At(t, "check") /\ Stepped(t)
              /\ state = "Open" /\ WithinResetTimeout )
                => /\ cbVars' = cbVars
                   /\ At(t, "unlock")' /\ Top(t)'.err = ErrCircuitOpen]_vars
    /\ [][\A t \in Callers :
            (Busy(t) /\ Top(t).pc \in {"lock", "unlock"} /\ Stepped(t))
                => cbVars' = cbVars]_vars
\* a rejected Call has returned, later than the failure that opened the
\* breaker
C30_Witness ==
    \E t \in Callers :
        /\ result[t].returned /\ result[t].op = "Call"
        /\ result[t].err = ErrCircuitOpen /\ callCount[t] = 0
        /\ state = "Open" /\ lastFailTime # ZeroTime /\ lastFailTime < now
        /\ WithinResetTimeout

\* ----------------------------- one caller of the Client's health check,
\* ensureConnection and Connect, with time passing
InitHealth ==
    /\ InitFields
    /\ config \in ClientBreakerConfigs
    /\ retryConfig \in {r \in ClientRetryConfigs : r.MaxRetries = 0}
NextHealth ==
    \/ Tick
    \/ StartRetryOp(1, "Connect")
    \/ StartHealthCheck(1)
    \/ EnsureNotConnected(1)
    \/ StartEnsure(1)
    \/ RetryCtxCheck(1)
    \/ CallLock(1)
    \/ CallCheck(1)
    \/ FnConnect(1)
    \/ \E ok \in BOOLEAN : Scan(1, ok)
    \/ \E ok \in BOOLEAN : Open(1, ok)
    \/ \E o \in NewVehicleOutcomes : NewVehicle(1, o)
    \/ \E ok \in BOOLEAN : CarConnect(1, ok)
    \/ \E ok \in BOOLEAN : StartSession(1, ok)
    \/ CallUpdate(1)
    \/ CallUnlock(1)
    \/ RetryAfter(1)
    \/ HealthLock(1)
    \/ HealthCheck(1)
    \/ \E ok \in BOOLEAN : HealthProbeReturn(1, ok)
    \/ EnsureAfterHealth(1)
    \/ EnsureReturn(1)
SpecHealth == InitHealth /\ [][NextHealth]_vars

\* the step of t is the return of its call of checkConnectionHealth with e,
\* to the caller or to ensureConnection
HealthReturns(t, e) ==
    /\ healthMutex' = 0
    /\ IF Len(stack[t]) = 1
       THEN ~Busy(t)' /\ result'[t].returned /\ result'[t].err = e
       ELSE Busy(t)' /\ Top(t)'.pc = "healthRet" /\ Top(t)'.err = e
\* the step of t starts the probe
Probes(t) == At(t, "io")' /\ Top(t)'.op = "checkConnectionHealth"

\* C23 as stated: a call of checkConnectionHealth made less than 5 seconds
\* after the previous call of it returned returns nil without invoking the
\* probe.
C23_AsStated ==
    [][\A t \in Callers :
         ( /\ At(t, "hcheck") /\ Stepped(t)
           /\ lastHealthReturn # ZeroTime
           /\ now - lastHealthReturn < HealthInterval )
            => HealthReturns(t, Nil)]_vars
\* C23: a call of checkConnectionHealth made less than 5 seconds after the
\* last probe that succeeded returns nil without invoking the probe; any
\* other call returns ErrNotConnected if the Client holds no connection and
\* invokes the probe if it does, whenever the previous call was made.
C23_RateLimitedAfterSuccess ==
    [][\A t \in Callers :
         (At(t, "hcheck") /\ Stepped(t))
            => IF lastHealthCheck # ZeroTime
                  /\ now - lastHealthCheck < HealthInterval
               THEN HealthReturns(t, Nil) /\ lastHealthCheck' = lastHealthCheck
               ELSE IF vehicle = 0 \/ conn = 0
               THEN HealthReturns(t, ErrNotConnected)
               ELSE Probes(t)]_vars
\* a call returned nil later than the last successful probe, which it did
\* not repeat
C23_Witness ==
    \E t \in Callers :
        /\ result[t].returned /\ result[t].op = "checkConnectionHealth"
        /\ result[t].err = Nil
        /\ lastHealthCheck # ZeroTime
        /\ lastHealthReturn = now /\ lastHealthReturn > lastHealthCheck

\* C24: ensureConnection returns ErrNotConnected and changes nothing when
\* the Client holds no connection; when the health check passes it returns
\* nil and closes nothing; when the health check fails it closes the handles
\* of the existing connection, only then starts Connect, and returns what
\* Connect returned.
C24_EnsureConnection ==
    /\ [][\A t \in Callers :
            ( /\ ~Busy(t) /\ started' # started /\ ~Busy(t)'
              /\ result'[t].returned /\ result'[t].op = "ensureConnection" )
               => /\ vehicle = 0 \/ conn = 0
                  /\ result'[t].err = ErrNotConnected
                  /\ UNCHANGED <<cbVars, mutex, clientVars, envVars>>]_vars
    /\ [][\A t \in Callers :
            ( /\ ~Busy(t) /\ Busy(t)'
              /\ stack'[t][1].op = "ensureConnection" )
               => /\ vehicle # 0 /\ conn # 0
                  /\ Len(stack'[t]) = 2 /\ At(t, "hlock")'
                  /\ Top(t)'.op = "checkConnectionHealth"
                  /\ UNCHANGED <<cbVars, mutex, clientVars, envVars>>]_vars
    /\ [][\A t \in Callers :
            (At(t, "healthRet") /\ Stepped(t))
               => IF Top(t).err = Nil
                  THEN /\ ~Busy(t)' /\ result'[t].returned
                       /\ result'[t].err = Nil
                       /\ UNCHANGED <<clientVars, envVars>>
                  ELSE /\ live' = live \ {vehicle, conn}
                       /\ Len(stack'[t]) = 2
                       /\ stack'[t][1].pc = "reconnect"
                       /\ Top(t)' = NewFrame("Connect", "ctx")]_vars
    /\ [][\A t \in Callers :
            (Len(stack[t]) = 2 /\ stack[t][1].pc = "reconnect" /\ Stepped(t)
             /\ Len(stack'[t]) = 1)
               => /\ Top(t).op = "Connect" /\ At(t, "after")
                  /\ At(t, "reconnectRet")'
                  /\ (Top(t)'.err = Nil) <=> (Top(t).err = Nil)]_vars
    /\ [][\A t \in Callers :
            (At(t, "reconnectRet") /\ Stepped(t))
               => /\ ~Busy(t)' /\ result'[t].returned
                  /\ result'[t].op = "ensureConnection"
                  /\ result'[t].err = Top(t).err]_vars
\* ensureConnection found the connection unhealthy, closed it and returned
\* the success of the new Connect
C24_Witness ==
    \E t \in Callers :
        /\ result[t].returned /\ result[t].op = "ensureConnection"
        /\ result[t].err = Nil
        /\ nextHandle = 3 /\ live = {2} /\ vehicle = 2 /\ conn = 2

\* ----------------------------- one caller of one BLEConnection
InitBLE ==
    /\ InitFields
    /\ config = DefaultBreakerConfig
    /\ retryConfig = DefaultRetryConfig
NextBLE ==
    \/ \E op \in {"BLEConnection.Disconnect", "Reconnect"} : StartBLEOp(1, op)
    \/ StartBLESession(1)
    \/ StartConnectToVehicle(1)
    \/ \E ok \in BOOLEAN : ConnectToVehicleScan(1, ok)
    \/ \E ok \in BOOLEAN : ConnectToVehicleOpen(1, ok)
    \/ \E ok \in BOOLEAN : ConnectToVehicleNewVehicle(1, ok)
    \/ \E ok \in BOOLEAN : ConnectToVehicleConnect(1, ok)
    \/ BLELock(1)
    \/ BLEDisconnect(1)
    \/ ReconnectTeardown(1)
    \/ \E ok \in BOOLEAN : ReconnectOpen(1, ok)
    \/ \E ok \in BOOLEAN : ReconnectNewVehicle(1, ok)
    \/ \E ok \in BOOLEAN : ReconnectCarConnect(1, ok)
    \/ BLESessionCall(1)
    \/ \E ok \in BOOLEAN : BLESessionReturn(1, ok)
SpecBLE == InitBLE /\ [][NextBLE]_vars

\* C25: Disconnect, in any state and however often it is repeated, returns
\* without failing and leaves state Disconnected, sessionActive false and
\* neither handle nor vehicle held; the handle held before the call, which
\* was open, is closed by it, and a Disconnect that finds nothing held
\* closes nothing.
C25_DisconnectIdempotent ==
    /\ [][\A t \in Callers :
            ( /\ At(t, "bcBody") /\ Stepped(t)
              /\ Top(t).op = "BLEConnection.Disconnect" )
               => /\ ~Busy(t)' /\ result'[t].returned /\ result'[t].err = Nil
                  /\ bc'.state = "Disconnected" /\ ~bc'.sessionActive
                  /\ bc'.conn = 0 /\ bc'.vehicle = 0
                  /\ bcMutex' = 0
                  /\ live' = live \ {bc.conn}
                  /\ (bc.conn = 0) => (live' = live)]_vars
    /\ [](bc.conn # 0 => bc.conn \in live /\ bc.vehicle = bc.conn)
    /\ [](bc.conn = 0 => bc.vehicle = 0)
\* a second Disconnect in a row has returned, after the first one closed the
\* handle a Reconnect had opened
C25_Witness ==
    \E t \in Callers :
        /\ result[t].returned /\ result[t].op = "BLEConnection.Disconnect"
        /\ started = 3 /\ nextHandle = 2 /\ live = {}
        /\ bc.state = "Disconnected" /\ bc.lastError = Nil

\* C26: Reconnect closes the handle held before it opens a new one; when it
\* fails it has closed any handle it opened, the connection holds none and
\* has state Error with lastError set; when it succeeds the connection holds
\* exactly the new handle, with state Connected and lastError cleared; two
\* live handles never exist.
C26_ReconnectReleases ==
    /\ [][\A t \in Callers :
            (At(t, "bcBody") /\ Stepped(t) /\ Top(t).op = "Reconnect")
               => /\ live' = live \ {bc.conn, bc.vehicle}
                  /\ nextHandle' = nextHandle
                  /\ At(t, "bcOpen")']_vars
    /\ [][\A t \in Callers :
            (Busy(t) /\ Top(t).op = "Reconnect" /\ ~Busy(t)')
               => /\ result'[t].returned /\ bcMutex' = 0
                  /\ IF result'[t].err = Nil
                     THEN /\ Top(t).h = nextHandle - 1
                          /\ bc'.conn = Top(t).h /\ bc'.vehicle = Top(t).h
                          /\ live' = {Top(t).h}
                          /\ bc'.state = "Connected" /\ bc'.lastError = Nil
                     ELSE /\ bc'.conn = 0 /\ bc'.vehicle = 0
                          /\ live' = {}
                          /\ bc'.state = "Error" /\ bc'.lastError # Nil]_vars
    /\ [](Cardinality(live) <= 1)
\* a second Reconnect has succeeded: the handle of the first is closed
C26_Witness ==
    \E t \in Callers :
        /\ result[t].returned /\ result[t].op = "Reconnect"
        /\ result[t].err = Nil
        /\ nextHandle = 3 /\ live = {2} /\ bc.conn = 2
        /\ bc.state = "Connected"

\* ----------------------------- one caller of BLEManager.RetryWithBackoff
\* SetRetryConfig accepts any retryInterval and maxRetries
BLEManagerConfigs ==
    [maxRetries : 0..BLEMaxRetriesBound, retryInterval : 0..BLERetryIntervalBound]
InitBLERetry ==
    /\ InitBase
    /\ config = DefaultBreakerConfig
    /\ retryConfig = DefaultRetryConfig
    /\ bm \in BLEManagerConfigs
NextBLERetry ==
    \/ \E k \in Scripts, c \in {Nil, Canceled} : StartBLERetry(1, k, c)
    \/ BLERetryLoop(1)
    \/ BLERetryCancelled(1)
    \/ BLERetryWake(1)
    \/ BLERetryOperation(1)
SpecBLERetry == InitBLERetry /\ [][NextBLERetry]_vars

\* C28: RetryWithBackoff called with a context that is already cancelled and
\* an operation that always fails invokes the operation exactly once and
\* returns context.Canceled, for every maxRetries >= 1 (and a positive
\* retryInterval).
C28_PreCancelledOneAttempt ==
    \A t \in Callers :
        ( /\ result[t].returned
          /\ result[t].op = "BLEManager.RetryWithBackoff"
          /\ ctxErr[t] = Canceled /\ script[t] = Always
          /\ bm.maxRetries >= 1 /\ bm.retryInterval > 0 )
            => callCount[t] = 1 /\ result[t].err = Canceled

\* ------------------------------------------------- ConnectWithConfig
\* One caller uses ConnectWithConfig with any scan settings; its context may
\* be cancelled or expire at any moment.
InitScan ==
    /\ InitFields
    /\ config \in ClientBreakerConfigs
    /\ retryConfig \in {r \in ClientRetryConfigs : r.MaxRetries = 0}
NextScan ==
    \/ Tick
    \/ \E tesla \in TeslaConfigs : StartConnectWithConfig(1, tesla)
    \/ \E e \in CtxErrors : CtxDone(1, e)
    \/ RetryCtxCheck(1)
    \/ CallLock(1)
    \/ CallCheck(1)
    \/ FnConnectWithConfig(1)
    \/ ScanLoop(1)
    \/ \E ok \in BOOLEAN : ScanCall(1, ok)
    \/ ScanWake(1)
    \/ ScanDone(1)
    \/ \E ok \in BOOLEAN : Open(1, ok)
    \/ \E o \in NewVehicleOutcomes : NewVehicle(1, o)
    \/ \E ok \in BOOLEAN : CarConnect(1, ok)
    \/ \E ok \in BOOLEAN : StartSession(1, ok)
    \/ CallUpdate(1)
    \/ CallUnlock(1)
    \/ RetryAfter(1)
SpecScan == InitScan /\ [][NextScan]_vars

\* C31: for every scanRetries >= 0, connectInternalWithConfig makes at most
\* scanRetries scan attempts, stops at the first success, waits scanDelay
\* only between a failed attempt and the next one, and when no scan attempt
\* succeeded it returns an error wrapping the scan failure without opening a
\* transport.
C31_ScanLoop ==
    [][ LET f == Top(1)
            g == Top(1)'
        IN  /\ (At(1, "scanCall") /\ Stepped(1))
                  => /\ f.scans < f.tesla.ScanRetries
                     /\ ~f.scan
                     /\ g.scan => g.pc = "scanDone"
            /\ (Stepped(1) /\ Busy(1) /\ Busy(1)' /\ g.pc = "scanSleep")
                  => /\ f.pc = "scanCall"
                     /\ g.scanErr # Nil
                     /\ g.scans < g.tesla.ScanRetries
                     /\ wakeAt'[1] = now + f.tesla.ScanDelay
            /\ (At(1, "scanDone") /\ Stepped(1) /\ ~f.scan)
                  => /\ g.pc = "update"
                     /\ f.scanErr # Nil
                     /\ g.err.chain = f.scanErr.chain
                     /\ UNCHANGED <<live, nextHandle, conn>> ]_vars

\* C32: a connect attempt that is waiting between two scan attempts when its
\* context is cancelled or expires returns the context's error from that
\* wait and makes no further scan attempt.
C32_CancelledScanWait ==
    [][ ( /\ At(1, "scanSleep") /\ Stepped(1)
          /\ ctxErr[1] # Nil /\ ~Is(Top(1).scanErr, ctxErr[1]) )
           => /\ Top(1)'.pc = "update"
              /\ Is(Top(1)'.err, ctxErr[1])
              /\ Top(1)'.scans = Top(1).scans ]_vars


\* C33: the state of a BLEConnection becomes SessionActive only by a
\* successful StartSession on a connection whose state is Connected; a
\* StartSession in state Disconnected or Error does not lead to
\* SessionActive.
C33_SessionOnlyFromConnected ==
    [][ (bc'.state = "SessionActive" /\ bc.state # "SessionActive")
           => /\ At(1, "bcSession")
              /\ Top(1).op = "BLEConnection.StartSession"
              /\ bc.state = "Connected" ]_vars


C38_StateFieldsConsistent ==
    /\ bc.state = "Error" => bc.lastError # Nil
    /\ bc.state \in {"Connected", "SessionActive"}
          => bc.lastError = Nil /\ bc.conn # 0 /\ bc.vehicle # 0
    /\ bc.state = "Disconnected" => bc.conn = 0 /\ bc.vehicle = 0
\* the connection made by ConnectToVehicle was reconnected with success
\* after a StartSession on it had failed
C38_Witness ==
    /\ result[1] = [op |-> "Reconnect", err |-> Nil, returned |-> TRUE]
    /\ started = 3
    /\ nextHandle = 3
    /\ bc.state = "Connected" /\ bc.lastError = Nil /\ bc.conn = 2


\* ------------------------------------------- readers and transitions
\* Caller 1 creates the BLEConnection and runs its transitions, caller 2
\* calls the readers at any moment.
InitBLEShared ==
    /\ InitFields
    /\ config = DefaultBreakerConfig
    /\ retryConfig = DefaultRetryConfig
NextBLEShared ==
    \/ \E op \in {"BLEConnection.Disconnect", "Reconnect"} : StartBLEOp(1, op)
    \/ StartBLESession(1)
    \/ StartConnectToVehicle(1)
    \/ \E ok \in BOOLEAN : ConnectToVehicleScan(1, ok)
    \/ \E ok \in BOOLEAN : ConnectToVehicleOpen(1, ok)
    \/ \E ok \in BOOLEAN : ConnectToVehicleNewVehicle(1, ok)
    \/ \E ok \in BOOLEAN : ConnectToVehicleConnect(1, ok)
    \/ BLELock(1)
    \/ BLEDisconnect(1)
    \/ ReconnectTeardown(1)
    \/ \E ok \in BOOLEAN : ReconnectOpen(1, ok)
    \/ \E ok \in BOOLEAN : ReconnectNewVehicle(1, ok)
    \/ \E ok \in BOOLEAN : ReconnectCarConnect(1, ok)
    \/ BLESessionCall(1)
    \/ \E ok \in BOOLEAN : BLESessionReturn(1, ok)
    \/ \E op \in BLEReaders : StartBLERead(2, op)
    \/ BLERead(2)
SpecBLEShared == InitBLEShared /\ [][NextBLEShared]_vars

\* caller t is inside a transition: past bc.mutex.Lock(), before the Unlock
InTransition(t) ==
    /\ Busy(t)
    /\ Top(t).op \in BLEWriters
    /\ Top(t).pc # "bcLock"
\* C39: a reader running concurrently with a Reconnect or StartSession never
\* observes an intermediate state: a read happens only while no transition
\* is between its Lock and its Unlock, so it returns the fields as they were
\* before the transition or as the transition left them (Connected or Error
\* for a Reconnect), never the transient Disconnected with handles cleared.
C39_ReadersSeeNoIntermediate ==
    [][ (At(2, "bcRLock") /\ Stepped(2))
           => /\ \A t \in Callers : ~InTransition(t)
              /\ result'[2].value = BLEReadValue(Top(2).op)
              /\ UNCHANGED bc
              /\ (result[1].op = "Reconnect" /\ result[1].returned)
                    => bc.state \in {"Connected", "Error"} ]_vars
\* a GetConnectionInfo called while a Reconnect held the lock has returned
\* the final state of that Reconnect
C39_Witness ==
    /\ result[2].returned
    /\ result[2].op = "BLEConnection.GetConnectionInfo"
    /\ result[2].holder = 1
    /\ result[1] = [op |-> "Reconnect", err |-> Nil, returned |-> TRUE]
    /\ result[2].value.state = "Connected"


\* C35: in every reachable state of a CircuitBreaker with maxFailures >= 1,
\* state is Open or HalfOpen exactly when failureCount >= maxFailures, and
\* Closed exactly when failureCount < maxFailures.
C35_StateMatchesFailureCount ==
    config.MaxFailures >= 1
       => /\ state \in {"Open", "HalfOpen"} <=> failureCount >= config.MaxFailures
          /\ state = "Closed" <=> failureCount < config.MaxFailures
\* a breaker that opened after two failures is HalfOpen while its probe
\* has run and the bookkeeping is still to come
C35_Witness ==
    \E t \in Callers :
        /\ At(t, "update")
        /\ state = "HalfOpen"
        /\ config.MaxFailures = 2 /\ failureCount = 2

\* C36: with halfOpenMaxCalls >= 1 the HalfOpen state exists only inside a
\* single Call: whenever no Call holds the lock the state is Closed or Open,
\* so GetState (which takes the read lock) never returns HalfOpen; no Call
\* finds the breaker HalfOpen at its checks, and every rejected Call was
\* rejected by the Open check, never by the half-open budget check.
C36_HalfOpenOnlyInsideCall ==
    config.HalfOpenMaxCalls >= 1
       => /\ (mutex = 0 \/ \A t \in Callers : ~InCall(t))
                => GetState \in {"Closed", "Open"}
          /\ \A t \in Callers :
                /\ At(t, "check") => state \in {"Closed", "Open"}
                /\ (At(t, "unlock") /\ Top(t).err = ErrCircuitOpen)
                      => state = "Open"
\* the probe of a HalfOpen breaker is running, with a budget of two calls
C36_Witness ==
    \E t \in Callers :
        /\ At(t, "fn")
        /\ state = "HalfOpen" /\ successCount = 0
        /\ config.HalfOpenMaxCalls = 2


\* ------------------------- operations and Connect behind one breaker
\* One caller of a new Client calls GetHVACState and Connect in any order
\* while the clock advances.
InitGuard ==
    /\ InitFields
    /\ config \in ClientBreakerConfigs
    /\ retryConfig \in ClientRetryConfigs
NextGuard ==
    \/ Tick
    \/ \E op \in {"GetHVACState", "Connect"} : StartRetryOp(1, op)
    \/ RetryCtxCheck(1)
    \/ CallLock(1)
    \/ CallCheck(1)
    \/ FnHVAC(1)
    \/ \E o \in HVACOutcomes : HVACReturn(1, o)
    \/ FnConnect(1)
    \/ \E ok \in BOOLEAN : Scan(1, ok)
    \/ \E ok \in BOOLEAN : Open(1, ok)
    \/ \E o \in NewVehicleOutcomes : NewVehicle(1, o)
    \/ \E ok \in BOOLEAN : CarConnect(1, ok)
    \/ \E ok \in BOOLEAN : StartSession(1, ok)
    \/ CallUpdate(1)
    \/ CallUnlock(1)
    \/ RetryAfter(1)
    \/ RetryWake(1)
SpecGuard == InitGuard /\ [][NextGuard]_vars

\* C34: failures of operations on a not-connected Client count toward the
\* breaker that guards Connect: each such failure is a failure of that
\* breaker, maxFailures consecutive failures leave it Open, and every attempt
\* of a Connect made before resetTimeout has elapsed since the last failure
\* is rejected with ErrCircuitOpen without a scan or a transport attempt.
C34_ConnectRejectedAfterFailures ==
    /\ [][ (At(1, "update") /\ Stepped(1) /\ Top(1).op = "GetHVACState"
            /\ Top(1).err = ErrNotConnected)
              => /\ failureCount' = failureCount + 1
                 /\ lastFailTime' = now
                 /\ failureCount + 1 >= config.MaxFailures => state' = "Open" ]_vars
    /\ [](failureCount >= config.MaxFailures => state \in {"Open", "HalfOpen"})
    /\ [][ (At(1, "check") /\ Stepped(1) /\ Top(1).op = "Connect"
            /\ state = "Open" /\ WithinResetTimeout)
              => /\ At(1, "unlock")' /\ Top(1)'.err = ErrCircuitOpen
                 /\ callCount' = callCount
                 /\ UNCHANGED <<cbVars, clientVars, envVars>> ]_vars
    /\ [](At(1, "scan") => ~(state = "Open" /\ WithinResetTimeout))
\* after two failures on a never-connected Client had opened the breaker, a
\* Connect begun while it was rejecting has returned without any attempt
C34_Witness ==
    /\ result[1].returned /\ result[1].op = "Connect"
    /\ started = 2
    /\ config.MaxFailures = 2 /\ retryConfig.MaxRetries = 1
    /\ atStart[1].rejecting /\ atStart[1].failureCount = 2
    /\ ~atStart[1].connected /\ atStart[1].nextHandle = 1
    /\ callCount[1] = 0 /\ nextHandle = 1
    /\ result[1].err = Exhausted("connect", 2, ErrCircuitOpen)
    /\ state = "Open" /\ failureCount = 2


\* ------------------------------- a Client under a ConfigManager
\* Caller 1 uses a Client that was never connected; caller 2 is the
\* goroutine of the ConfigManager, which delivers configuration changes at
\* any moment.  Time passes only in the sleeps of the retry loop.
\* the configurations a reload delivers: Reload passes on only what
\* Config.Validate accepts
ReloadConfigs ==
    [Retry : ClientRetryConfigs, CircuitBreaker : ClientBreakerConfigs]
InitReload ==
    /\ InitFields
    /\ config \in ClientBreakerConfigs
    /\ retryConfig \in ClientRetryConfigs
NextReload ==
    \/ StartRetryOp(1, "GetHVACState")
    \/ \E new \in ReloadConfigs : StartReload(2, new)
    \/ ReloadSetRetry(2)
    \/ ReloadSetBreaker(2)
    \/ RetryCtxCheck(1)
    \/ CallLock(1)
    \/ CurrentCallCheck(1)
    \/ DetachedCallCheck(1)
    \/ FnHVAC(1)
    \/ CurrentCallUpdate(1)
    \/ DetachedCallUpdate(1)
    \/ CurrentCallUnlock(1)
    \/ DetachedCallUnlock(1)
    \/ RetryAfter(1)
    \/ RetryWake(1)
SpecReload == InitReload /\ [][NextReload]_vars

\* C40: a configuration change delivered to a Client made by
\* NewClientWithConfigManager replaces the retry configuration and the
\* breaker wholesale: when the callback returns the Client has the new retry
\* configuration and a breaker that is Closed with failureCount 0 under the
\* new configuration, also when the breaker before was Open and
\* resetTimeout has not elapsed; a Call that was running on the replaced
\* breaker leaves the new one untouched.
C40_ConfigChangeResetsBreaker ==
    /\ [][ (At(2, "setBreaker") /\ Stepped(2))
              => /\ retryConfig' = Top(2).new.Retry
                 /\ config' = Top(2).new.CircuitBreaker
                 /\ state' = "Closed" /\ failureCount' = 0
                 /\ successCount' = 0 /\ lastFailTime' = ZeroTime
                 /\ mutex' = 0 ]_vars
    /\ [][ (state = "Open" /\ WithinResetTimeout /\ state' # "Open")
              => At(2, "setBreaker") /\ state' = "Closed" ]_vars
    /\ [][ (Detached(1) /\ Stepped(1)) => UNCHANGED <<cbVars, mutex, config>> ]_vars
    /\ [][ (At(1, "check") /\ ~Detached(1) /\ Stepped(1) /\ ~Stepped(2)
            /\ state = "Closed")
              => At(1, "fn")' ]_vars
\* an operation begun while the breaker was Open and rejecting has invoked
\* its body although no time has passed, because a configuration change
\* came in between
C40_Witness ==
    /\ result[1].returned /\ result[1].op = "GetHVACState"
    /\ atStart[1].rejecting
    /\ callCount[1] >= 1
    /\ now = 0
    /\ result[2] = [op |-> "Reload", err |-> Nil, returned |-> TRUE]
====
